---- MODULE Spec2Model ----
(***************************************************************************)
(* The mock fintech REST API: the in-memory data stores of                 *)
(* data/mockData.js and the request handlers of routes/*.js, each handler  *)
(* (and the airtime timer callback) one atomic step of the event loop.     *)
(*                                                                         *)
(* Encoding.  A value that may be null or undefined is Null (the empty     *)
(* tuple) or Some(v) (the one-tuple <<v>>).  Money is kept in hundredths   *)
(* (5000.00 is 500000), interest rates in tenths of a percent, times in    *)
(* minutes since 2024-01-01T00:00Z.  A query-string value is the sequence  *)
(* of its characters.                                                      *)
(***************************************************************************)
EXTENDS Integers, Sequences, FiniteSets, TLC

VARIABLES accounts, transactions, payments, loans, airtimePurchases,
          kycRecords, accountLimits, timers, now, resp

stores == <<accounts, transactions, payments, loans, airtimePurchases,
            kycRecords, accountLimits>>
vars == <<accounts, transactions, payments, loans, airtimePurchases,
          kycRecords, accountLimits, timers, now, resp>>

\* ---------------------------------------------------------------- bounds
\* The clock readings past Now0 at which a request may still change a store.
MaxClock == 2

\* ------------------------------------------------------ values and helpers
Null == <<>>
Some(v) == <<v>>
Val(x) == x[1]
\* JavaScript truthiness of a value that is a number, a string or an array.
TruthyNum(x) == x # Null /\ Val(x) # 0
TruthyStr(x) == x # Null /\ Val(x) # ""
TruthyArr(x) == x # Null

\* The clock at start-up (2024-02-01T00:00Z), after every seeded timestamp but
\* the KYC expiry.
Now0 == 31 * 24 * 60
\* 365 * 24 * 60 * 60 * 1000 ms, in minutes.
YearMinutes == 365 * 24 * 60

\* String(n).padStart(3, '0')
PadStart3(s) ==
  IF Len(s) >= 3 THEN s ELSE IF Len(s) = 2 THEN "0" \o s ELSE "00" \o s
\* `${prefix}${String(n).padStart(3, '0')}`
MakeId(prefix, n) == prefix \o PadStart3(ToString(n))

\* A number of hundredths as JavaScript prints the number: 75000 is "750",
\* 250050 is "2500.5", -5 is "-0.05".
FormatNumber(c) ==
  LET a == IF c < 0 THEN -c ELSE c
      whole == a \div 100
      frac == a % 100
      sign == IF c < 0 THEN "-" ELSE ""
  IN  IF frac = 0 THEN sign \o ToString(whole)
      ELSE IF frac % 10 = 0 THEN sign \o ToString(whole) \o "." \o ToString(frac \div 10)
      ELSE IF frac < 10 THEN sign \o ToString(whole) \o ".0" \o ToString(frac)
      ELSE sign \o ToString(whole) \o "." \o ToString(frac)

\* Array.prototype.findIndex over a store; 0 stands for -1 (not found).
FindIndex(store, key, v) ==
  IF \E i \in 1..Len(store) : store[i][key] = v
  THEN CHOOSE i \in 1..Len(store) :
         /\ store[i][key] = v
         /\ \A j \in 1..(i - 1) : store[j][key] # v
  ELSE 0
\* Array.prototype.find: Null for undefined.
Find(store, key, v) ==
  LET i == FindIndex(store, key, v) IN IF i = 0 THEN Null ELSE Some(store[i])
\* { ...rec, ...updates }: a field of updates overrides the field of rec.
Spread(rec, updates) == updates @@ rec
\* updates.status === s
StatusIs(updates, s) == "status" \in DOMAIN updates /\ updates.status = s
\* rec[f], Null (undefined) when the object has no such field.
Field(rec, f) == IF f \in DOMAIN rec THEN rec[f] ELSE Null

\* ------------------------------------------------------------ seeded data
SeedAccounts == <<
  [id |-> "acc-001", customerId |-> "cust-001", type |-> "savings", currency |-> "GHS",
   balance |-> 500000, status |-> "active", accountNumber |-> "1234567890",
   createdAt |-> 20760, updatedAt |-> 20760],
  [id |-> "acc-002", customerId |-> "cust-002", type |-> "current", currency |-> "GHS",
   balance |-> 250050, status |-> "active", accountNumber |-> "1234567891",
   createdAt |-> 22260, updatedAt |-> 22260],
  [id |-> "acc-003", customerId |-> "cust-001", type |-> "savings", currency |-> "GHS",
   balance |-> 1000000, status |-> "suspended", accountNumber |-> "1234567892",
   createdAt |-> 23760, updatedAt |-> 28200] >>

SeedTransactions == <<
  [id |-> "txn-001", accountId |-> "acc-001", type |-> "debit", amount |-> 10000,
   currency |-> "GHS", description |-> "Payment to merchant", status |-> "cleared",
   counterparty |-> "merchant-123", initiatedAt |-> 25020, processedAt |-> Some(25025),
   reference |-> "REF-001"],
  [id |-> "txn-002", accountId |-> "acc-001", type |-> "credit", amount |-> 50000,
   currency |-> "GHS", description |-> "Salary deposit", status |-> "cleared",
   counterparty |-> "employer-456", initiatedAt |-> 26520, processedAt |-> Some(26522),
   reference |-> "REF-002"],
  [id |-> "txn-003", accountId |-> "acc-002", type |-> "debit", amount |-> 5000,
   currency |-> "GHS", description |-> "Transfer to acc-001", status |-> "pending",
   counterparty |-> "acc-001", initiatedAt |-> 28020, processedAt |-> Null,
   reference |-> "REF-003"] >>

SeedPayments == <<
  [id |-> "pay-001", accountId |-> "acc-001", beneficiary |-> "John Doe",
   beneficiaryAccount |-> "9876543210", amount |-> 20000, currency |-> "GHS",
   method |-> "bank_transfer", status |-> "completed", reference |-> "PAY-REF-001",
   initiatedAt |-> 24960, completedAt |-> Some(24975), kycComplete |-> TRUE,
   sufficientBalance |-> TRUE],
  [id |-> "pay-002", accountId |-> "acc-002", beneficiary |-> "Jane Smith",
   beneficiaryAccount |-> "9876543211", amount |-> 15000, currency |-> "GHS",
   method |-> "bank_transfer", status |-> "pending", reference |-> "PAY-REF-002",
   initiatedAt |-> 27960, completedAt |-> Null, kycComplete |-> TRUE,
   sufficientBalance |-> FALSE] >>

\* monthlyPayment is Null or the exact quotient <<numerator, denominator>>.
SeedLoans == <<
  [id |-> "loan-001", customerId |-> "cust-001", accountId |-> "acc-001",
   amount |-> 500000, currency |-> "GHS", purpose |-> "Business expansion",
   tenure |-> 12, interestRate |-> 85, status |-> "approved", creditScore |-> 750,
   eligible |-> TRUE, appliedAt |-> 13500, approvedAt |-> Some(16680),
   disbursedAt |-> Some(17880),
   monthlyPayment |-> <<43750, 1>>, remainingBalance |-> Some(500000)],
  [id |-> "loan-002", customerId |-> "cust-002", accountId |-> "acc-002",
   amount |-> 300000, currency |-> "GHS", purpose |-> "Personal use",
   tenure |-> 6, interestRate |-> 100, status |-> "pending", creditScore |-> 680,
   eligible |-> TRUE, appliedAt |-> 26580, approvedAt |-> Null,
   disbursedAt |-> Null,
   monthlyPayment |-> <<52500, 1>>, remainingBalance |-> Null],
  [id |-> "loan-003", customerId |-> "cust-003", accountId |-> "acc-003",
   amount |-> 1000000, currency |-> "GHS", purpose |-> "Home improvement",
   tenure |-> 24, interestRate |-> 75, status |-> "rejected", creditScore |-> 600,
   eligible |-> FALSE, appliedAt |-> 20760, approvedAt |-> Null,
   disbursedAt |-> Null, rejectionReason |-> Some("Insufficient credit score"),
   monthlyPayment |-> Null, remainingBalance |-> Null] >>

SeedAirtimePurchases == <<
  [id |-> "air-001", accountId |-> "acc-001", phoneNumber |-> "+233241234567",
   amount |-> 1000, currency |-> "GHS", provider |-> "MTN", status |-> "completed",
   transactionReference |-> "AIR-REF-001", purchasedAt |-> 25200,
   completedAt |-> Some(25202), deliveryStatus |-> "delivered"],
  [id |-> "air-002", accountId |-> "acc-002", phoneNumber |-> "+233241234568",
   amount |-> 500, currency |-> "GHS", provider |-> "Vodafone", status |-> "pending",
   transactionReference |-> "AIR-REF-002", purchasedAt |-> 28140,
   completedAt |-> Null, deliveryStatus |-> "processing"] >>

SeedKycRecords == <<
  [customerId |-> "cust-001", status |-> "approved", level |-> "tier2",
   documents |-> <<"id", "proof_of_address">>, riskRating |-> "low",
   verifiedAt |-> Some(6360), expiresAt |-> Some(533400), pendingItems |-> <<>>],
  [customerId |-> "cust-002", status |-> "pending", level |-> "tier1",
   documents |-> <<"id">>, riskRating |-> "medium",
   verifiedAt |-> Null, expiresAt |-> Null,
   pendingItems |-> <<"proof_of_address", "income_statement">>],
  [customerId |-> "cust-003", status |-> "rejected", level |-> "tier1",
   documents |-> <<>>, riskRating |-> "high",
   verifiedAt |-> Null, expiresAt |-> Null,
   pendingItems |-> <<"id", "proof_of_address">>,
   rejectionReason |-> Some("Invalid documents provided")] >>

SeedAccountLimits == <<
  [accountId |-> "acc-001", dailyLimit |-> 100000, monthlyLimit |-> 1000000,
   dailyUsed |-> 25000, monthlyUsed |-> 120000, currency |-> "GHS",
   updatedAt |-> 27960],
  [accountId |-> "acc-002", dailyLimit |-> 50000, monthlyLimit |-> 500000,
   dailyUsed |-> 15000, monthlyUsed |-> 80000, currency |-> "GHS",
   updatedAt |-> 27960] >>

\* resp is the response being sent, with the request it answers; NoResponse
\* when the server is waiting for a request.
NoResponse == [kind |-> "none"]

Init ==
  /\ accounts = SeedAccounts
  /\ transactions = SeedTransactions
  /\ payments = SeedPayments
  /\ loans = SeedLoans
  /\ airtimePurchases = SeedAirtimePurchases
  /\ kycRecords = SeedKycRecords
  /\ accountLimits = SeedAccountLimits
  /\ timers = {}
  /\ now = Now0
  /\ resp = NoResponse

\* ------------------------------------------------- data/mockData.js helpers
\* Each takes the store it works on and the clock as the module reads them,
\* and gives the store afterwards and the record it returns.
getAccountById(store, id) == Find(store, "id", id)
\* addAccount numbering the new account by the count before the push.
addAccount_IdFromCount(store, account) ==
  LET newAccount == Spread(account,
        [id |-> MakeId("acc-", Len(store)), createdAt |-> now, updatedAt |-> now])
  IN  [store |-> Append(store, newAccount), rec |-> newAccount]
addAccount(store, account) ==
  LET newAccount == Spread(account,
        [id |-> MakeId("acc-", Len(store) + 1), createdAt |-> now, updatedAt |-> now])
  IN  [store |-> Append(store, newAccount), rec |-> newAccount]
\* updateAccount without the updatedAt stamp.
updateAccount_NoStamp(store, id, updates) ==
  LET index == FindIndex(store, "id", id)
      updated == Spread(store[index], updates)
  IN  IF index = 0 THEN [store |-> store, rec |-> Null]
      ELSE [store |-> [store EXCEPT ![index] = updated], rec |-> Some(updated)]
updateAccount(store, id, updates) ==
  LET index == FindIndex(store, "id", id)
      updated == Spread(Spread(store[index], updates), [updatedAt |-> now])
  IN  IF index = 0 THEN [store |-> store, rec |-> Null]
      ELSE [store |-> [store EXCEPT ![index] = updated], rec |-> Some(updated)]

getTransactionById(store, id) == Find(store, "id", id)
addTransaction(store, transaction) ==
  LET n == Len(store) + 1
      newTransaction == Spread(transaction,
        [id |-> MakeId("txn-", n),
         initiatedAt |-> now,
         processedAt |-> IF transaction.status = "cleared" THEN Some(now) ELSE Null,
         reference |-> IF TruthyStr(Field(transaction, "reference"))
                       THEN Val(transaction.reference) ELSE MakeId("REF-", n)])
  IN  [store |-> Append(store, newTransaction), rec |-> newTransaction]

getPaymentById(store, id) == Find(store, "id", id)
addPayment(store, payment) ==
  LET n == Len(store) + 1
      newPayment == Spread(payment,
        [id |-> MakeId("pay-", n),
         status |-> "pending",
         initiatedAt |-> now,
         completedAt |-> Null,
         reference |-> IF TruthyStr(Field(payment, "reference"))
                       THEN Val(payment.reference) ELSE MakeId("PAY-REF-", n)])
  IN  [store |-> Append(store, newPayment), rec |-> newPayment]
updatePayment(store, id, updates) ==
  LET index == FindIndex(store, "id", id)
      merged == Spread(store[index], updates)
      updated == IF StatusIs(updates, "completed") /\ merged.completedAt = Null
                 THEN Spread(merged, [completedAt |-> Some(now)])
                 ELSE merged
  IN  IF index = 0 THEN [store |-> store, rec |-> Null]
      ELSE [store |-> [store EXCEPT ![index] = updated], rec |-> Some(updated)]

getLoanById(store, id) == Find(store, "id", id)
\* random1 and random2 are the two draws of Math.floor(Math.random() * 200) + 500.
\* addLoan deciding eligible by a draw of its own, whatever the loan's score.
addLoan_EligibleByOwnDraw(store, loan, random1, random2) ==
  LET newLoan == Spread(loan,
        [id |-> MakeId("loan-", Len(store) + 1),
         status |-> "pending",
         appliedAt |-> now,
         approvedAt |-> Null,
         disbursedAt |-> Null,
         creditScore |-> IF loan.creditScore # 0 THEN loan.creditScore ELSE random1,
         eligible |-> random2 >= 650])
  IN  [store |-> Append(store, newLoan), rec |-> newLoan]
addLoan(store, loan, random1, random2) ==
  LET newLoan == Spread(loan,
        [id |-> MakeId("loan-", Len(store) + 1),
         status |-> "pending",
         appliedAt |-> now,
         approvedAt |-> Null,
         disbursedAt |-> Null,
         creditScore |-> IF loan.creditScore # 0 THEN loan.creditScore ELSE random1,
         eligible |-> (IF loan.creditScore # 0 THEN loan.creditScore ELSE random2) >= 650])
  IN  [store |-> Append(store, newLoan), rec |-> newLoan]
updateLoan(store, id, updates) ==
  LET index == FindIndex(store, "id", id)
      merged == Spread(store[index], updates)
      approved == IF StatusIs(updates, "approved") /\ merged.approvedAt = Null
                  THEN Spread(merged, [approvedAt |-> Some(now)])
                  ELSE merged
      updated == IF StatusIs(updates, "disbursed") /\ approved.disbursedAt = Null
                 THEN Spread(approved, [disbursedAt |-> Some(now)])
                 ELSE approved
  IN  IF index = 0 THEN [store |-> store, rec |-> Null]
      ELSE [store |-> [store EXCEPT ![index] = updated], rec |-> Some(updated)]

getAirtimePurchaseById(store, id) == Find(store, "id", id)
addAirtimePurchase(store, purchase) ==
  LET n == Len(store) + 1
      newPurchase == Spread(purchase,
        [id |-> MakeId("air-", n),
         status |-> "pending",
         purchasedAt |-> now,
         completedAt |-> Null,
         deliveryStatus |-> "processing",
         transactionReference |->
           IF TruthyStr(Field(purchase, "transactionReference"))
           THEN Val(purchase.transactionReference) ELSE MakeId("AIR-REF-", n)])
  IN  [store |-> Append(store, newPurchase), rec |-> newPurchase]
\* updateAirtimePurchase stamping completedAt but leaving deliveryStatus.
updateAirtimePurchase_NoDelivery(store, id, updates) ==
  LET index == FindIndex(store, "id", id)
      merged == Spread(store[index], updates)
      updated == IF StatusIs(updates, "completed") /\ merged.completedAt = Null
                 THEN Spread(merged, [completedAt |-> Some(now)])
                 ELSE merged
  IN  IF index = 0 THEN [store |-> store, rec |-> Null]
      ELSE [store |-> [store EXCEPT ![index] = updated], rec |-> Some(updated)]
updateAirtimePurchase(store, id, updates) ==
  LET index == FindIndex(store, "id", id)
      merged == Spread(store[index], updates)
      updated == IF StatusIs(updates, "completed") /\ merged.completedAt = Null
                 THEN Spread(merged, [completedAt |-> Some(now), deliveryStatus |-> "delivered"])
                 ELSE merged
  IN  IF index = 0 THEN [store |-> store, rec |-> Null]
      ELSE [store |-> [store EXCEPT ![index] = updated], rec |-> Some(updated)]

getKycRecord(store, customerId) == Find(store, "customerId", customerId)
\* updateKycRecord stamping verifiedAt on every approval, set or not.
updateKycRecord_AlwaysStamp(store, customerId, updates) ==
  LET index == FindIndex(store, "customerId", customerId)
      newRecord == Spread([customerId |-> customerId, status |-> "pending", level |-> "tier1",
                           documents |-> <<>>, riskRating |-> "medium", verifiedAt |-> Null,
                           expiresAt |-> Null, pendingItems |-> <<>>], updates)
      merged == Spread(store[index], updates)
      updated == IF StatusIs(updates, "approved")
                 THEN Spread(merged, [verifiedAt |-> Some(now),
                                      expiresAt |-> Some(now + YearMinutes)])
                 ELSE merged
  IN  IF index = 0 THEN [store |-> Append(store, newRecord), rec |-> Some(newRecord)]
      ELSE [store |-> [store EXCEPT ![index] = updated], rec |-> Some(updated)]
updateKycRecord(store, customerId, updates) ==
  LET index == FindIndex(store, "customerId", customerId)
      newRecord == Spread([customerId |-> customerId, status |-> "pending", level |-> "tier1",
                           documents |-> <<>>, riskRating |-> "medium", verifiedAt |-> Null,
                           expiresAt |-> Null, pendingItems |-> <<>>], updates)
      merged == Spread(store[index], updates)
      updated == IF StatusIs(updates, "approved") /\ merged.verifiedAt = Null
                 THEN Spread(merged, [verifiedAt |-> Some(now),
                                      expiresAt |-> Some(now + YearMinutes)])
                 ELSE merged
  IN  IF index = 0 THEN [store |-> Append(store, newRecord), rec |-> Some(newRecord)]
      ELSE [store |-> [store EXCEPT ![index] = updated], rec |-> Some(updated)]

getAccountLimit(store, accountId) == Find(store, "accountId", accountId)
\* updateAccountLimit starting the used counters again at every update.
updateAccountLimit_ResetsUsed(store, accountId, updates) ==
  LET index == FindIndex(store, "accountId", accountId)
      newLimit == Spread([accountId |-> accountId, dailyLimit |-> 100000,
                          monthlyLimit |-> 1000000, dailyUsed |-> 0, monthlyUsed |-> 0,
                          currency |-> "GHS", updatedAt |-> now], updates)
      updated == Spread(Spread(store[index], updates),
                        [dailyUsed |-> 0, monthlyUsed |-> 0, updatedAt |-> now])
  IN  IF index = 0 THEN [store |-> Append(store, newLimit), rec |-> Some(newLimit)]
      ELSE [store |-> [store EXCEPT ![index] = updated], rec |-> Some(updated)]
\* updateAccountLimit pushing a record whether or not the account has one.
updateAccountLimit_AlwaysPushes(store, accountId, updates) ==
  LET newLimit == Spread([accountId |-> accountId, dailyLimit |-> 100000,
                          monthlyLimit |-> 1000000, dailyUsed |-> 0, monthlyUsed |-> 0,
                          currency |-> "GHS", updatedAt |-> now], updates)
  IN  [store |-> Append(store, newLimit), rec |-> Some(newLimit)]
updateAccountLimit(store, accountId, updates) ==
  LET index == FindIndex(store, "accountId", accountId)
      newLimit == Spread([accountId |-> accountId, dailyLimit |-> 100000,
                          monthlyLimit |-> 1000000, dailyUsed |-> 0, monthlyUsed |-> 0,
                          currency |-> "GHS", updatedAt |-> now], updates)
      updated == Spread(Spread(store[index], updates), [updatedAt |-> now])
  IN  IF index = 0 THEN [store |-> Append(store, newLimit), rec |-> Some(newLimit)]
      ELSE [store |-> [store EXCEPT ![index] = updated], rec |-> Some(updated)]

\* --------------------------------------------------------- response shapes
\* The requestId of a response is random and left out.
ErrorEnvelope(code, message) ==
  [kind |-> "error", code |-> code, message |-> message, timestamp |-> now]
SuccessEnvelope(code, data, message) ==
  [kind |-> "success", code |-> code, data |-> data, message |-> message,
   timestamp |-> now]
CheckerResponse(result, reason, metadata) ==
  [kind |-> "checker", code |-> 200, result |-> result, reason |-> reason,
   metadata |-> metadata, timestamp |-> now]

\* Array.prototype.join
RECURSIVE Join(_, _)
Join(strs, sep) ==
  IF Len(strs) = 0 THEN ""
  ELSE IF Len(strs) = 1 THEN strs[1]
  ELSE strs[1] \o sep \o Join(Tail(strs), sep)

\* ------------------------------------------------------ routes/accounts.js
GetAccount(accountId) ==
  LET account == getAccountById(accounts, accountId)
  IN  IF account = Null THEN ErrorEnvelope(404, "Account not found")
      ELSE SuccessEnvelope(200, Val(account), "")

\* accountNumber is the random ten-digit number the handler draws.
PostAccounts(body, accountNumber) ==
  IF ~TruthyStr(body.customerId) \/ ~TruthyStr(body.type) \/ ~TruthyStr(body.currency)
  THEN [res |-> ErrorEnvelope(400, "Missing required fields: customerId, type, currency"),
        store |-> accounts]
  ELSE LET added == addAccount(accounts,
             [customerId |-> Val(body.customerId),
              type |-> Val(body.type),
              currency |-> Val(body.currency),
              balance |-> IF TruthyNum(body.initialDeposit) THEN Val(body.initialDeposit) ELSE 0,
              status |-> "active",
              accountNumber |-> accountNumber])
       IN  [res |-> SuccessEnvelope(201, added.rec, "Account created successfully"),
            store |-> added.store]

validStatuses == <<"active", "suspended", "closed">>

PatchAccountStatus(accountId, body) ==
  IF ~TruthyStr(body.status) \/ ~(\E i \in 1..Len(validStatuses) : validStatuses[i] = Val(body.status))
  THEN [res |-> ErrorEnvelope(400, "Status must be one of: " \o Join(validStatuses, ", ")),
        store |-> accounts]
  ELSE LET updated == updateAccount(accounts, accountId, [status |-> Val(body.status)])
       IN  IF updated.rec = Null
           THEN [res |-> ErrorEnvelope(404, "Account not found"), store |-> updated.store]
           ELSE [res |-> SuccessEnvelope(200, Val(updated.rec), "Account status updated"),
                 store |-> updated.store]

CheckActive(accountId) ==
  LET account == getAccountById(accounts, accountId)
      isActive == Val(account).status = "active"
  IN  IF account = Null
      THEN CheckerResponse(FALSE, "Account not found", [accountId |-> accountId])
      ELSE CheckerResponse(isActive,
             IF isActive THEN "Account is active"
             ELSE "Account status is: " \o Val(account).status,
             [accountId |-> Val(account).id, status |-> Val(account).status,
              accountNumber |-> Val(account).accountNumber])

\* -------------------------------------------------- routes/transactions.js
GetTransaction(txnId) ==
  LET transaction == getTransactionById(transactions, txnId)
  IN  IF transaction = Null THEN ErrorEnvelope(404, "Transaction not found")
      ELSE SuccessEnvelope(200, Val(transaction), "")

\* PostTransactions creating the pair as cleared.
PostTransactions_ClearedAtOnce(body) ==
  IF ~TruthyStr(body.fromAccount) \/ ~TruthyStr(body.toAccount)
     \/ ~TruthyNum(body.amount) \/ ~TruthyStr(body.currency)
  THEN [res |-> ErrorEnvelope(400,
                  "Missing required fields: fromAccount, toAccount, amount, currency"),
        store |-> transactions]
  ELSE IF Val(body.amount) <= 0
  THEN [res |-> ErrorEnvelope(400, "Amount must be greater than 0"),
        store |-> transactions]
  ELSE LET debit == addTransaction(transactions,
             [accountId |-> Val(body.fromAccount),
              type |-> "debit",
              amount |-> Val(body.amount),
              currency |-> Val(body.currency),
              description |-> IF TruthyStr(body.purpose) THEN Val(body.purpose)
                              ELSE "Transfer to " \o Val(body.toAccount),
              status |-> "cleared",
              counterparty |-> Val(body.toAccount)])
           credit == addTransaction(debit.store,
             [accountId |-> Val(body.toAccount),
              type |-> "credit",
              amount |-> Val(body.amount),
              currency |-> Val(body.currency),
              description |-> IF TruthyStr(body.purpose) THEN Val(body.purpose)
                              ELSE "Transfer from " \o Val(body.fromAccount),
              status |-> "cleared",
              counterparty |-> Val(body.fromAccount)])
       IN  [res |-> SuccessEnvelope(201,
                      [debitTransaction |-> debit.rec, creditTransaction |-> credit.rec],
                      "Transaction initiated"),
            store |-> credit.store]
\* PostTransactions numbering the credit by the count the debit was numbered by.
PostTransactions_SameCount(body) ==
  IF ~TruthyStr(body.fromAccount) \/ ~TruthyStr(body.toAccount)
     \/ ~TruthyNum(body.amount) \/ ~TruthyStr(body.currency)
  THEN [res |-> ErrorEnvelope(400,
                  "Missing required fields: fromAccount, toAccount, amount, currency"),
        store |-> transactions]
  ELSE IF Val(body.amount) <= 0
  THEN [res |-> ErrorEnvelope(400, "Amount must be greater than 0"),
        store |-> transactions]
  ELSE LET debit == addTransaction(transactions,
             [accountId |-> Val(body.fromAccount),
              type |-> "debit",
              amount |-> Val(body.amount),
              currency |-> Val(body.currency),
              description |-> IF TruthyStr(body.purpose) THEN Val(body.purpose)
                              ELSE "Transfer to " \o Val(body.toAccount),
              status |-> "pending",
              counterparty |-> Val(body.toAccount)])
           credit == addTransaction(transactions,
             [accountId |-> Val(body.toAccount),
              type |-> "credit",
              amount |-> Val(body.amount),
              currency |-> Val(body.currency),
              description |-> IF TruthyStr(body.purpose) THEN Val(body.purpose)
                              ELSE "Transfer from " \o Val(body.fromAccount),
              status |-> "pending",
              counterparty |-> Val(body.fromAccount)])
       IN  [res |-> SuccessEnvelope(201,
                      [debitTransaction |-> debit.rec, creditTransaction |-> credit.rec],
                      "Transaction initiated"),
            store |-> Append(debit.store, credit.rec)]
PostTransactions(body) ==
  IF ~TruthyStr(body.fromAccount) \/ ~TruthyStr(body.toAccount)
     \/ ~TruthyNum(body.amount) \/ ~TruthyStr(body.currency)
  THEN [res |-> ErrorEnvelope(400,
                  "Missing required fields: fromAccount, toAccount, amount, currency"),
        store |-> transactions]
  ELSE IF Val(body.amount) <= 0
  THEN [res |-> ErrorEnvelope(400, "Amount must be greater than 0"),
        store |-> transactions]
  ELSE LET debit == addTransaction(transactions,
             [accountId |-> Val(body.fromAccount),
              type |-> "debit",
              amount |-> Val(body.amount),
              currency |-> Val(body.currency),
              description |-> IF TruthyStr(body.purpose) THEN Val(body.purpose)
                              ELSE "Transfer to " \o Val(body.toAccount),
              status |-> "pending",
              counterparty |-> Val(body.toAccount)])
           credit == addTransaction(debit.store,
             [accountId |-> Val(body.toAccount),
              type |-> "credit",
              amount |-> Val(body.amount),
              currency |-> Val(body.currency),
              description |-> IF TruthyStr(body.purpose) THEN Val(body.purpose)
                              ELSE "Transfer from " \o Val(body.fromAccount),
              status |-> "pending",
              counterparty |-> Val(body.fromAccount)])
       IN  [res |-> SuccessEnvelope(201,
                      [debitTransaction |-> debit.rec, creditTransaction |-> credit.rec],
                      "Transaction initiated"),
            store |-> credit.store]

CheckCleared(txnId) ==
  LET transaction == getTransactionById(transactions, txnId)
      isCleared == Val(transaction).status = "cleared"
  IN  IF transaction = Null
      THEN CheckerResponse(FALSE, "Transaction not found", [transactionId |-> txnId])
      ELSE CheckerResponse(isCleared,
             IF isCleared THEN "Transaction has been cleared"
             ELSE "Transaction status is: " \o Val(transaction).status,
             [transactionId |-> Val(transaction).id, status |-> Val(transaction).status,
              amount |-> Val(transaction).amount, currency |-> Val(transaction).currency,
              processedAt |-> Val(transaction).processedAt])

\* ------------------------------------------------------ routes/payments.js
GetPayment(paymentId) ==
  LET payment == getPaymentById(payments, paymentId)
  IN  IF payment = Null THEN ErrorEnvelope(404, "Payment not found")
      ELSE SuccessEnvelope(200, Val(payment), "")

PostPaymentsInitiate(body) ==
  LET account == getAccountById(accounts, Val(body.accountId))
  IN  IF ~TruthyStr(body.accountId) \/ ~TruthyStr(body.beneficiary)
         \/ ~TruthyStr(body.beneficiaryAccount) \/ ~TruthyNum(body.amount)
         \/ ~TruthyStr(body.currency)
      THEN [res |-> ErrorEnvelope(400,
              "Missing required fields: accountId, beneficiary, beneficiaryAccount, amount, currency"),
            store |-> payments]
      ELSE IF Val(body.amount) <= 0
      THEN [res |-> ErrorEnvelope(400, "Amount must be greater than 0"),
            store |-> payments]
      ELSE IF account = Null
      THEN [res |-> ErrorEnvelope(404, "Account not found"), store |-> payments]
      ELSE LET added == addPayment(payments,
                 [accountId |-> Val(body.accountId),
                  beneficiary |-> Val(body.beneficiary),
                  beneficiaryAccount |-> Val(body.beneficiaryAccount),
                  amount |-> Val(body.amount),
                  currency |-> Val(body.currency),
                  method |-> IF TruthyStr(body.method) THEN Val(body.method)
                             ELSE "bank_transfer",
                  reference |-> body.reference,
                  kycComplete |-> TRUE,
                  sufficientBalance |-> Val(account).balance >= Val(body.amount)])
           IN  [res |-> SuccessEnvelope(201, added.rec, "Payment initiated"),
                store |-> added.store]

PostPaymentsCancel(paymentId) ==
  LET payment == getPaymentById(payments, paymentId)
      updated == updatePayment(payments, paymentId, [status |-> "cancelled"])
  IN  IF payment = Null
      THEN [res |-> ErrorEnvelope(404, "Payment not found"), store |-> payments]
      ELSE IF Val(payment).status = "completed"
      THEN [res |-> ErrorEnvelope(400, "Cannot cancel a completed payment"),
            store |-> payments]
      ELSE [res |-> SuccessEnvelope(200, Val(updated.rec), "Payment cancelled"),
            store |-> updated.store]

\* CheckReady giving only the first failing clause as the reason.
CheckReady_FirstReasonOnly(paymentId) ==
  LET found == getPaymentById(payments, paymentId)
      payment == Val(found)
      isReady == payment.kycComplete /\ payment.sufficientBalance
                 /\ payment.status = "pending"
      reasons == (IF ~payment.kycComplete THEN <<"KYC not complete">> ELSE <<>>)
                 \o (IF ~payment.sufficientBalance THEN <<"Insufficient balance">> ELSE <<>>)
                 \o (IF payment.status # "pending"
                     THEN <<"Payment status is " \o payment.status>> ELSE <<>>)
  IN  IF found = Null
      THEN CheckerResponse(FALSE, "Payment not found", [paymentId |-> paymentId])
      ELSE CheckerResponse(isReady,
             IF isReady THEN "Payment is ready to process" ELSE reasons[1],
             [paymentId |-> payment.id, status |-> payment.status,
              kycComplete |-> payment.kycComplete,
              sufficientBalance |-> payment.sufficientBalance,
              amount |-> payment.amount, currency |-> payment.currency])
CheckReady(paymentId) ==
  LET found == getPaymentById(payments, paymentId)
      payment == Val(found)
      isReady == payment.kycComplete /\ payment.sufficientBalance
                 /\ payment.status = "pending"
      reasons == (IF ~payment.kycComplete THEN <<"KYC not complete">> ELSE <<>>)
                 \o (IF ~payment.sufficientBalance THEN <<"Insufficient balance">> ELSE <<>>)
                 \o (IF payment.status # "pending"
                     THEN <<"Payment status is " \o payment.status>> ELSE <<>>)
  IN  IF found = Null
      THEN CheckerResponse(FALSE, "Payment not found", [paymentId |-> paymentId])
      ELSE CheckerResponse(isReady,
             IF isReady THEN "Payment is ready to process" ELSE Join(reasons, ", "),
             [paymentId |-> payment.id, status |-> payment.status,
              kycComplete |-> payment.kycComplete,
              sufficientBalance |-> payment.sufficientBalance,
              amount |-> payment.amount, currency |-> payment.currency])

\* --------------------------------------------------------- routes/loans.js
GetLoan(loanId) ==
  LET loan == getLoanById(loans, loanId)
  IN  IF loan = Null THEN ErrorEnvelope(404, "Loan not found")
      ELSE SuccessEnvelope(200, Val(loan), "")

\* amount > 10000 ? 7.5 : amount > 5000 ? 8.5 : 10.0, in tenths of a percent.
\* InterestRate with the tier bounds counted into the lower rate.
InterestRate_InclusiveTiers(amount) ==
  IF amount >= 1000000 THEN 75 ELSE IF amount >= 500000 THEN 85 ELSE 100
InterestRate(amount) ==
  IF amount > 1000000 THEN 75 ELSE IF amount > 500000 THEN 85 ELSE 100
\* (amount * (1 + interestRate / 100)) / tenure as <<numerator, denominator>>.
MonthlyPayment(amount, interestRate, tenure) ==
  <<amount * (1000 + interestRate), 1000 * tenure>>

\* score, random1 and random2 are the draws of Math.floor(Math.random() * 200) + 500
\* in the handler and in addLoan.
PostLoansApply(body, score, random1, random2) ==
  IF ~TruthyStr(body.customerId) \/ ~TruthyStr(body.accountId) \/ ~TruthyNum(body.amount)
     \/ ~TruthyStr(body.purpose) \/ ~TruthyNum(body.tenure)
  THEN [res |-> ErrorEnvelope(400,
                  "Missing required fields: customerId, accountId, amount, purpose, tenure"),
        store |-> loans]
  ELSE IF Val(body.amount) <= 0
  THEN [res |-> ErrorEnvelope(400, "Amount must be greater than 0"), store |-> loans]
  ELSE LET interestRate == InterestRate(Val(body.amount))
           added == addLoan(loans,
             [customerId |-> Val(body.customerId),
              accountId |-> Val(body.accountId),
              amount |-> Val(body.amount),
              currency |-> "GHS",
              purpose |-> Val(body.purpose),
              tenure |-> Val(body.tenure),
              interestRate |-> interestRate,
              monthlyPayment |-> MonthlyPayment(Val(body.amount), interestRate, Val(body.tenure)),
              creditScore |-> score,
              collateral |-> IF TruthyStr(body.collateral) THEN body.collateral ELSE Null],
             random1, random2)
       IN  [res |-> SuccessEnvelope(201, added.rec, "Loan application submitted"),
            store |-> added.store]

\* CheckEligible deciding by the score alone, against the threshold 600.
CheckEligible_Threshold600(loanId) ==
  LET found == getLoanById(loans, loanId)
      loan == Val(found)
      isEligible == loan.creditScore >= 600
  IN  IF found = Null
      THEN CheckerResponse(FALSE, "Loan not found", [loanId |-> loanId])
      ELSE CheckerResponse(isEligible,
             IF isEligible THEN "Loan is eligible"
             ELSE "Credit score " \o ToString(loan.creditScore)
                  \o " is below minimum threshold (650)",
             [loanId |-> loan.id, creditScore |-> loan.creditScore,
              eligible |-> loan.eligible, amount |-> loan.amount, status |-> loan.status])
\* CheckEligible answering an unknown id with the 404 envelope of GET /loans/:loanId.
CheckEligible_NotFoundError(loanId) ==
  LET found == getLoanById(loans, loanId)
      loan == Val(found)
      isEligible == loan.eligible /\ loan.creditScore >= 650
  IN  IF found = Null
      THEN ErrorEnvelope(404, "Loan not found")
      ELSE CheckerResponse(isEligible,
             IF isEligible THEN "Loan is eligible"
             ELSE "Credit score " \o ToString(loan.creditScore)
                  \o " is below minimum threshold (650)",
             [loanId |-> loan.id, creditScore |-> loan.creditScore,
              eligible |-> loan.eligible, amount |-> loan.amount, status |-> loan.status])
CheckEligible(loanId) ==
  LET found == getLoanById(loans, loanId)
      loan == Val(found)
      isEligible == loan.eligible /\ loan.creditScore >= 650
  IN  IF found = Null
      THEN CheckerResponse(FALSE, "Loan not found", [loanId |-> loanId])
      ELSE CheckerResponse(isEligible,
             IF isEligible THEN "Loan is eligible"
             ELSE "Credit score " \o ToString(loan.creditScore)
                  \o " is below minimum threshold (650)",
             [loanId |-> loan.id, creditScore |-> loan.creditScore,
              eligible |-> loan.eligible, amount |-> loan.amount, status |-> loan.status])

CheckLoanApproved(loanId) ==
  LET found == getLoanById(loans, loanId)
      loan == Val(found)
      isApproved == loan.status = "approved"
      pendingChecks == IF isApproved THEN <<>>
                       ELSE <<"credit_check", "document_verification", "risk_assessment">>
  IN  IF found = Null
      THEN CheckerResponse(FALSE, "Loan not found", [loanId |-> loanId])
      ELSE CheckerResponse(isApproved,
             IF isApproved THEN "Loan has been approved"
             ELSE "Loan status is: " \o loan.status,
             [loanId |-> loan.id, status |-> loan.status,
              pendingChecks |-> pendingChecks, approvedAt |-> loan.approvedAt])

\* PostLoansApprove refusing a loan that is not eligible.
PostLoansApprove_RequiresEligible(loanId) ==
  LET found == getLoanById(loans, loanId)
      loan == Val(found)
      updated == updateLoan(loans, loanId,
                   [status |-> "approved", disbursedAt |-> Some(now),
                    remainingBalance |-> Some(loan.amount)])
  IN  IF found = Null
      THEN [res |-> ErrorEnvelope(404, "Loan not found"), store |-> loans]
      ELSE IF loan.status # "pending" \/ ~loan.eligible
      THEN [res |-> ErrorEnvelope(400, "Cannot approve loan with status: " \o loan.status),
            store |-> loans]
      ELSE [res |-> SuccessEnvelope(200, Val(updated.rec), "Loan approved and disbursed"),
            store |-> updated.store]
\* PostLoansApprove approving without the disbursement.
PostLoansApprove_NoDisbursement(loanId) ==
  LET found == getLoanById(loans, loanId)
      loan == Val(found)
      updated == updateLoan(loans, loanId, [status |-> "approved"])
  IN  IF found = Null
      THEN [res |-> ErrorEnvelope(404, "Loan not found"), store |-> loans]
      ELSE IF loan.status # "pending"
      THEN [res |-> ErrorEnvelope(400, "Cannot approve loan with status: " \o loan.status),
            store |-> loans]
      ELSE [res |-> SuccessEnvelope(200, Val(updated.rec), "Loan approved and disbursed"),
            store |-> updated.store]
\* PostLoansApprove without the check of the loan's status.
PostLoansApprove_NoStatusGuard(loanId) ==
  LET found == getLoanById(loans, loanId)
      loan == Val(found)
      updated == updateLoan(loans, loanId,
                   [status |-> "approved", disbursedAt |-> Some(now),
                    remainingBalance |-> Some(loan.amount)])
  IN  IF found = Null
      THEN [res |-> ErrorEnvelope(404, "Loan not found"), store |-> loans]
      ELSE [res |-> SuccessEnvelope(200, Val(updated.rec), "Loan approved and disbursed"),
            store |-> updated.store]
PostLoansApprove(loanId) ==
  LET found == getLoanById(loans, loanId)
      loan == Val(found)
      updated == updateLoan(loans, loanId,
                   [status |-> "approved", disbursedAt |-> Some(now),
                    remainingBalance |-> Some(loan.amount)])
  IN  IF found = Null
      THEN [res |-> ErrorEnvelope(404, "Loan not found"), store |-> loans]
      ELSE IF loan.status # "pending"
      THEN [res |-> ErrorEnvelope(400, "Cannot approve loan with status: " \o loan.status),
            store |-> loans]
      ELSE [res |-> SuccessEnvelope(200, Val(updated.rec), "Loan approved and disbursed"),
            store |-> updated.store]

\* PostLoansReject without the check of the loan's status.
PostLoansReject_NoStatusGuard(loanId, body) ==
  LET found == getLoanById(loans, loanId)
      updated == updateLoan(loans, loanId,
                   [status |-> "rejected",
                    rejectionReason |-> IF TruthyStr(body.reason) THEN body.reason
                                        ELSE Some("Application does not meet requirements")])
  IN  IF found = Null
      THEN [res |-> ErrorEnvelope(404, "Loan not found"), store |-> loans]
      ELSE [res |-> SuccessEnvelope(200, Val(updated.rec), "Loan application rejected"),
            store |-> updated.store]
PostLoansReject(loanId, body) ==
  LET found == getLoanById(loans, loanId)
      loan == Val(found)
      updated == updateLoan(loans, loanId,
                   [status |-> "rejected",
                    rejectionReason |-> IF TruthyStr(body.reason) THEN body.reason
                                        ELSE Some("Application does not meet requirements")])
  IN  IF found = Null
      THEN [res |-> ErrorEnvelope(404, "Loan not found"), store |-> loans]
      ELSE IF loan.status # "pending"
      THEN [res |-> ErrorEnvelope(400, "Cannot reject loan with status: " \o loan.status),
            store |-> loans]
      ELSE [res |-> SuccessEnvelope(200, Val(updated.rec), "Loan application rejected"),
            store |-> updated.store]

\* ------------------------------------------------------- routes/airtime.js
PROVIDERS == <<
  [id |-> "MTN", name |-> "MTN"],
  [id |-> "Vodafone", name |-> "Vodafone"],
  [id |-> "Airtel", name |-> "Airtel"],
  [id |-> "Tigo", name |-> "Tigo"],
  [id |-> "Orange", name |-> "Orange"] >>

GetAirtimePurchase(purchaseId) ==
  LET purchase == getAirtimePurchaseById(airtimePurchases, purchaseId)
  IN  IF purchase = Null THEN ErrorEnvelope(404, "Airtime purchase not found")
      ELSE SuccessEnvelope(200, Val(purchase), "")

\* timer is the id the setTimeout callback closes over, Null when none is set.
PostAirtimePurchase(body) ==
  LET matches == {i \in 1..Len(PROVIDERS) :
                    PROVIDERS[i].id = Val(body.provider) \/ PROVIDERS[i].name = Val(body.provider)}
      providerExists == PROVIDERS[CHOOSE i \in matches : \A j \in matches : i <= j]
      added == addAirtimePurchase(airtimePurchases,
                 [accountId |-> Val(body.accountId),
                  phoneNumber |-> Val(body.phoneNumber),
                  amount |-> Val(body.amount),
                  currency |-> IF TruthyStr(body.currency) THEN Val(body.currency) ELSE "GHS",
                  provider |-> providerExists.id])
  IN  IF ~TruthyStr(body.phoneNumber) \/ ~TruthyNum(body.amount)
         \/ ~TruthyStr(body.provider) \/ ~TruthyStr(body.accountId)
      THEN [res |-> ErrorEnvelope(400,
                      "Missing required fields: phoneNumber, amount, provider, accountId"),
            store |-> airtimePurchases, timer |-> Null]
      ELSE IF Val(body.amount) <= 0
      THEN [res |-> ErrorEnvelope(400, "Amount must be greater than 0"),
            store |-> airtimePurchases, timer |-> Null]
      ELSE IF matches = {}
      THEN [res |-> ErrorEnvelope(400, "Invalid provider. Available: "
                      \o Join([i \in 1..Len(PROVIDERS) |-> PROVIDERS[i].id], ", ")),
            store |-> airtimePurchases, timer |-> Null]
      ELSE [res |-> SuccessEnvelope(201, added.rec, "Airtime purchase initiated"),
            store |-> added.store, timer |-> Some(added.rec.id)]

\* The callback looking the purchase up by its transaction reference.
PurchaseTimeout_WrongKey(purchaseId) ==
  updateAirtimePurchase(airtimePurchases,
    IF getAirtimePurchaseById(airtimePurchases, purchaseId) = Null THEN purchaseId
    ELSE Val(getAirtimePurchaseById(airtimePurchases, purchaseId)).transactionReference,
    [status |-> "completed"])
\* The setTimeout callback of a purchase.
PurchaseTimeout(purchaseId) ==
  updateAirtimePurchase(airtimePurchases, purchaseId, [status |-> "completed"])

CheckCompleted(purchaseId) ==
  LET found == getAirtimePurchaseById(airtimePurchases, purchaseId)
      purchase == Val(found)
      isCompleted == purchase.status = "completed"
  IN  IF found = Null
      THEN CheckerResponse(FALSE, "Airtime purchase not found", [purchaseId |-> purchaseId])
      ELSE CheckerResponse(isCompleted,
             IF isCompleted THEN "Airtime purchase has been completed"
             ELSE "Purchase status is: " \o purchase.status,
             [purchaseId |-> purchase.id, status |-> purchase.status,
              deliveryStatus |-> purchase.deliveryStatus,
              phoneNumber |-> purchase.phoneNumber, amount |-> purchase.amount,
              provider |-> purchase.provider, completedAt |-> purchase.completedAt])

\* ----------------------------------------------------------- routes/kyc.js
GetKyc(customerId) ==
  LET kyc == getKycRecord(kycRecords, customerId)
  IN  IF kyc = Null THEN ErrorEnvelope(404, "KYC record not found")
      ELSE SuccessEnvelope(200, Val(kyc), "")

\* PostKycRefresh counting the stored documents when the request brings none.
PostKycRefresh_CountsStoredDocuments(customerId, body) ==
  LET existingKyc == getKycRecord(kycRecords, customerId)
      documents == IF TruthyArr(body.documents) THEN Val(body.documents)
                   ELSE IF existingKyc # Null THEN Val(existingKyc).documents
                   ELSE <<>>
      hasAllDocuments == Len(documents) >= 2
      riskRating == IF hasAllDocuments THEN "low" ELSE "medium"
      newStatus == IF hasAllDocuments THEN "approved" ELSE "pending"
      updated == updateKycRecord(kycRecords, customerId,
        [status |-> newStatus,
         level |-> IF TruthyStr(body.level) THEN Val(body.level)
                   ELSE IF existingKyc # Null /\ Val(existingKyc).level # ""
                        THEN Val(existingKyc).level
                   ELSE "tier1",
         documents |-> documents,
         riskRating |-> riskRating,
         pendingItems |-> IF hasAllDocuments THEN <<>>
                          ELSE <<"proof_of_address", "income_statement">>])
  IN  [res |-> SuccessEnvelope(200, Val(updated.rec), "KYC check refreshed"),
       store |-> updated.store]
\* PostKycRefresh resetting the verification timestamps.
PostKycRefresh_ClearsVerification(customerId, body) ==
  LET existingKyc == getKycRecord(kycRecords, customerId)
      hasAllDocuments == TruthyArr(body.documents) /\ Len(Val(body.documents)) >= 2
      riskRating == IF hasAllDocuments THEN "low" ELSE "medium"
      newStatus == IF hasAllDocuments THEN "approved" ELSE "pending"
      updated == updateKycRecord(kycRecords, customerId,
        [status |-> newStatus,
         level |-> IF TruthyStr(body.level) THEN Val(body.level)
                   ELSE IF existingKyc # Null /\ Val(existingKyc).level # ""
                        THEN Val(existingKyc).level
                   ELSE "tier1",
         documents |-> IF TruthyArr(body.documents) THEN Val(body.documents)
                       ELSE IF existingKyc # Null THEN Val(existingKyc).documents
                       ELSE <<>>,
         riskRating |-> riskRating,
         pendingItems |-> IF hasAllDocuments THEN <<>>
                          ELSE <<"proof_of_address", "income_statement">>,
         verifiedAt |-> Null, expiresAt |-> Null])
  IN  [res |-> SuccessEnvelope(200, Val(updated.rec), "KYC check refreshed"),
       store |-> updated.store]

PostKycRefresh(customerId, body) ==
  LET existingKyc == getKycRecord(kycRecords, customerId)
      hasAllDocuments == TruthyArr(body.documents) /\ Len(Val(body.documents)) >= 2
      riskRating == IF hasAllDocuments THEN "low" ELSE "medium"
      newStatus == IF hasAllDocuments THEN "approved" ELSE "pending"
      updated == updateKycRecord(kycRecords, customerId,
        [status |-> newStatus,
         level |-> IF TruthyStr(body.level) THEN Val(body.level)
                   ELSE IF existingKyc # Null /\ Val(existingKyc).level # ""
                        THEN Val(existingKyc).level
                   ELSE "tier1",
         documents |-> IF TruthyArr(body.documents) THEN Val(body.documents)
                       ELSE IF existingKyc # Null THEN Val(existingKyc).documents
                       ELSE <<>>,
         riskRating |-> riskRating,
         pendingItems |-> IF hasAllDocuments THEN <<>>
                          ELSE <<"proof_of_address", "income_statement">>])
  IN  [res |-> SuccessEnvelope(200, Val(updated.rec), "KYC check refreshed"),
       store |-> updated.store]

CheckKycApproved(customerId) ==
  LET found == getKycRecord(kycRecords, customerId)
      kyc == Val(found)
      isApproved == kyc.status = "approved"
  IN  IF found = Null
      THEN CheckerResponse(FALSE, "KYC record not found", [customerId |-> customerId])
      ELSE CheckerResponse(isApproved,
             IF isApproved THEN "KYC is approved" ELSE "KYC status is: " \o kyc.status,
             [customerId |-> kyc.customerId, status |-> kyc.status, level |-> kyc.level,
              riskRating |-> kyc.riskRating, pendingItems |-> kyc.pendingItems,
              verifiedAt |-> kyc.verifiedAt, expiresAt |-> kyc.expiresAt])

\* -------------------------------------------------------- routes/limits.js
GetLimits(accountId) ==
  LET found == getAccountLimit(accountLimits, accountId)
      limit == Val(found)
      dailyRemaining == limit.dailyLimit - limit.dailyUsed
      monthlyRemaining == limit.monthlyLimit - limit.monthlyUsed
  IN  IF found = Null THEN ErrorEnvelope(404, "Account limits not found")
      ELSE SuccessEnvelope(200,
             Spread(limit, [dailyRemaining |-> dailyRemaining,
                            monthlyRemaining |-> monthlyRemaining,
                            dailyAvailable |-> dailyRemaining > 0,
                            monthlyAvailable |-> monthlyRemaining > 0]), "")

\* {} : the object with no field.
EmptyObject == <<>>

\* PostLimitsUpdate without the checks of the sign of the limits.
PostLimitsUpdate_NoSignCheck(accountId, body) ==
  LET withDaily == IF body.dailyLimit # Null
                   THEN Spread(EmptyObject, [dailyLimit |-> Val(body.dailyLimit)])
                   ELSE EmptyObject
      updates == IF body.monthlyLimit # Null
                 THEN Spread(withDaily, [monthlyLimit |-> Val(body.monthlyLimit)])
                 ELSE withDaily
      updated == updateAccountLimit(accountLimits, accountId, updates)
  IN  IF ~TruthyNum(body.dailyLimit) /\ ~TruthyNum(body.monthlyLimit)
      THEN [res |-> ErrorEnvelope(400,
                      "At least one limit must be provided: dailyLimit or monthlyLimit"),
            store |-> accountLimits]
      ELSE [res |-> SuccessEnvelope(200, Val(updated.rec), "Account limits updated"),
            store |-> updated.store]
\* PostLimitsUpdate storing monthlyLimit before it validates dailyLimit.
PostLimitsUpdate_PartialUpdate(accountId, body) ==
  LET withDaily == IF body.dailyLimit # Null
                   THEN Spread(EmptyObject, [dailyLimit |-> Val(body.dailyLimit)])
                   ELSE EmptyObject
      updates == IF body.monthlyLimit # Null
                 THEN Spread(withDaily, [monthlyLimit |-> Val(body.monthlyLimit)])
                 ELSE withDaily
      updated == updateAccountLimit(accountLimits, accountId, updates)
      monthlyOnly == updateAccountLimit(accountLimits, accountId,
                                        [monthlyLimit |-> Val(body.monthlyLimit)])
  IN  IF ~TruthyNum(body.dailyLimit) /\ ~TruthyNum(body.monthlyLimit)
      THEN [res |-> ErrorEnvelope(400,
                      "At least one limit must be provided: dailyLimit or monthlyLimit"),
            store |-> accountLimits]
      ELSE IF body.dailyLimit # Null /\ Val(body.dailyLimit) < 0
      THEN [res |-> ErrorEnvelope(400, "dailyLimit must be >= 0"),
            store |-> IF body.monthlyLimit # Null /\ Val(body.monthlyLimit) >= 0
                      THEN monthlyOnly.store ELSE accountLimits]
      ELSE IF body.monthlyLimit # Null /\ Val(body.monthlyLimit) < 0
      THEN [res |-> ErrorEnvelope(400, "monthlyLimit must be >= 0"), store |-> accountLimits]
      ELSE [res |-> SuccessEnvelope(200, Val(updated.rec), "Account limits updated"),
            store |-> updated.store]
PostLimitsUpdate(accountId, body) ==
  LET withDaily == IF body.dailyLimit # Null
                   THEN Spread(EmptyObject, [dailyLimit |-> Val(body.dailyLimit)])
                   ELSE EmptyObject
      updates == IF body.monthlyLimit # Null
                 THEN Spread(withDaily, [monthlyLimit |-> Val(body.monthlyLimit)])
                 ELSE withDaily
      updated == updateAccountLimit(accountLimits, accountId, updates)
  IN  IF ~TruthyNum(body.dailyLimit) /\ ~TruthyNum(body.monthlyLimit)
      THEN [res |-> ErrorEnvelope(400,
                      "At least one limit must be provided: dailyLimit or monthlyLimit"),
            store |-> accountLimits]
      ELSE IF body.dailyLimit # Null /\ Val(body.dailyLimit) < 0
      THEN [res |-> ErrorEnvelope(400, "dailyLimit must be >= 0"), store |-> accountLimits]
      ELSE IF body.monthlyLimit # Null /\ Val(body.monthlyLimit) < 0
      THEN [res |-> ErrorEnvelope(400, "monthlyLimit must be >= 0"), store |-> accountLimits]
      ELSE [res |-> SuccessEnvelope(200, Val(updated.rec), "Account limits updated"),
            store |-> updated.store]

\* parseFloat over the characters of a string: an optional sign, digits, an
\* optional point and digits, up to the first character that fits no more;
\* Null stands for NaN.  The value is in hundredths, so decimals after the
\* second are dropped.
Digits == <<"0", "1", "2", "3", "4", "5", "6", "7", "8", "9">>
IsDigit(c) == \E i \in 1..Len(Digits) : Digits[i] = c
DigitValue(c) == (CHOOSE i \in 1..Len(Digits) : Digits[i] = c) - 1
RECURSIVE DigitsEnd(_, _)
DigitsEnd(chars, i) ==
  IF i > Len(chars) \/ ~IsDigit(chars[i]) THEN i ELSE DigitsEnd(chars, i + 1)
RECURSIVE DigitsNumber(_, _, _)
DigitsNumber(chars, from, to) ==
  IF to < from THEN 0
  ELSE 10 * DigitsNumber(chars, from, to - 1) + DigitValue(chars[to])
parseFloat(chars) ==
  LET signed == Len(chars) >= 1 /\ chars[1] \in {"-", "+"}
      start == IF signed THEN 2 ELSE 1
      intEnd == DigitsEnd(chars, start)
      hasPoint == intEnd <= Len(chars) /\ chars[intEnd] = "."
      fracEnd == IF hasPoint THEN DigitsEnd(chars, intEnd + 1) ELSE intEnd
      fracLen == IF hasPoint THEN fracEnd - intEnd - 1 ELSE 0
      tenths == IF fracLen >= 1 THEN DigitValue(chars[intEnd + 1]) ELSE 0
      hundredths == IF fracLen >= 2 THEN DigitValue(chars[intEnd + 2]) ELSE 0
      magnitude == 100 * DigitsNumber(chars, start, intEnd - 1) + 10 * tenths + hundredths
  IN  IF (intEnd - start) + fracLen = 0 THEN Null
      ELSE Some(IF signed /\ chars[1] = "-" THEN -magnitude ELSE magnitude)

\* CheckAvailable taking the whole limit as what remains.
CheckAvailable_IgnoresUsed(accountId, query) ==
  LET amount == query.amount
      period == IF query.period = Null THEN "daily" ELSE Val(query.period)
      found == getAccountLimit(accountLimits, accountId)
      limit == Val(found)
      amountNum == parseFloat(Val(amount))
      theLimit == IF period = "daily" THEN limit.dailyLimit ELSE limit.monthlyLimit
      used == IF period = "daily" THEN limit.dailyUsed ELSE limit.monthlyUsed
      remaining == theLimit
      isAvailable == remaining >= Val(amountNum)
      name == IF period = "daily" THEN "daily" ELSE "monthly"
      Name == IF period = "daily" THEN "Daily" ELSE "Monthly"
      reason == IF isAvailable
                THEN Name \o " limit available: " \o FormatNumber(remaining) \o " "
                     \o limit.currency
                ELSE "Insufficient " \o name \o " limit. Available: "
                     \o FormatNumber(remaining) \o " " \o limit.currency \o ", Required: "
                     \o FormatNumber(Val(amountNum)) \o " " \o limit.currency
  IN  IF found = Null
      THEN CheckerResponse(FALSE, "Account limits not found", [accountId |-> accountId])
      ELSE IF amount = Null \/ Val(amount) = <<>> \/ amountNum = Null \/ Val(amountNum) <= 0
      THEN CheckerResponse(FALSE, "Amount must be provided and greater than 0",
                           [accountId |-> accountId])
      ELSE IF period # "daily" /\ period # "monthly"
      THEN CheckerResponse(FALSE, "Period must be \"daily\" or \"monthly\"",
                           [accountId |-> accountId])
      ELSE CheckerResponse(isAvailable, reason,
             [accountId |-> limit.accountId, period |-> period,
              requestedAmount |-> Val(amountNum), remaining |-> remaining,
              limit |-> theLimit, used |-> used, currency |-> limit.currency])
\* query.amount is Null or Some(characters); query.period is Null or Some(string).
CheckAvailable(accountId, query) ==
  LET amount == query.amount
      period == IF query.period = Null THEN "daily" ELSE Val(query.period)
      found == getAccountLimit(accountLimits, accountId)
      limit == Val(found)
      amountNum == parseFloat(Val(amount))
      theLimit == IF period = "daily" THEN limit.dailyLimit ELSE limit.monthlyLimit
      used == IF period = "daily" THEN limit.dailyUsed ELSE limit.monthlyUsed
      remaining == theLimit - used
      isAvailable == remaining >= Val(amountNum)
      name == IF period = "daily" THEN "daily" ELSE "monthly"
      Name == IF period = "daily" THEN "Daily" ELSE "Monthly"
      reason == IF isAvailable
                THEN Name \o " limit available: " \o FormatNumber(remaining) \o " "
                     \o limit.currency
                ELSE "Insufficient " \o name \o " limit. Available: "
                     \o FormatNumber(remaining) \o " " \o limit.currency \o ", Required: "
                     \o FormatNumber(Val(amountNum)) \o " " \o limit.currency
  IN  IF found = Null
      THEN CheckerResponse(FALSE, "Account limits not found", [accountId |-> accountId])
      ELSE IF amount = Null \/ Val(amount) = <<>> \/ amountNum = Null \/ Val(amountNum) <= 0
      THEN CheckerResponse(FALSE, "Amount must be provided and greater than 0",
                           [accountId |-> accountId])
      ELSE IF period # "daily" /\ period # "monthly"
      THEN CheckerResponse(FALSE, "Period must be \"daily\" or \"monthly\"",
                           [accountId |-> accountId])
      ELSE CheckerResponse(isAvailable, reason,
             [accountId |-> limit.accountId, period |-> period,
              requestedAmount |-> Val(amountNum), remaining |-> remaining,
              limit |-> theLimit, used |-> used, currency |-> limit.currency])

\* ---------------------------------------------------------------- server.js
\* The routes the routers register, as method and path.
Routes ==
  {"GET /accounts/:accountId", "POST /accounts", "PATCH /accounts/:accountId/status",
   "POST /accounts/:accountId/check-active",
   "GET /transactions/:txnId", "POST /transactions",
   "GET /transactions/:txnId/check-cleared",
   "GET /payments/:paymentId", "POST /payments/initiate",
   "POST /payments/:paymentId/cancel", "GET /payments/:paymentId/check-ready",
   "GET /loans/:loanId", "POST /loans/apply", "GET /loans/:loanId/check-eligible",
   "GET /loans/:loanId/check-approved", "POST /loans/:loanId/approve",
   "POST /loans/:loanId/reject",
   "GET /airtime/purchases/:purchaseId", "POST /airtime/purchase",
   "GET /airtime/purchases/:purchaseId/check-completed",
   "GET /kyc/customers/:customerId", "POST /kyc/customers/:customerId/refresh",
   "POST /kyc/customers/:customerId/check-approved",
   "GET /limits/:accountId", "POST /limits/:accountId/update",
   "GET /limits/:accountId/check-available"}
\* The handler of a request that no route matches.
EndpointNotFound == ErrorEnvelope(404, "Endpoint not found")

\* ------------------------------------------------------------------ inputs
AccountBodies ==
  [customerId : {Null, Some("cust-004")}, type : {Some("savings")},
   currency : {Some("GHS")}, initialDeposit : {Null, Some(-5000), Some(10000)}]
AccountNumbers == {"1000000000"}
AccountIds == {"acc-001", "acc-999"}
StatusBodies == [status : {Null, Some("closed"), Some("frozen")}]
TransactionBodies ==
  [fromAccount : {Some("acc-001")}, toAccount : {Null, Some("acc-002")},
   amount : {Some(0), Some(-500), Some(10000)}, currency : {Some("GHS")},
   purpose : {Null}]
TransactionIds == {"txn-001", "txn-004", "txn-999"}
PaymentBodies ==
  [accountId : {Some("acc-001"), Some("acc-999")}, beneficiary : {Some("Ama Mensah")},
   beneficiaryAccount : {Some("5550001111")},
   amount : {Null, Some(-500), Some(10000)},
   currency : {Some("GHS")}, method : {Null}, reference : {Null}]
PaymentIds == {"pay-001", "pay-002", "pay-003", "pay-999"}
PaymentReadIds == {"pay-001", "pay-002", "pay-003", "pay-999"}
LoanBodies ==
  [customerId : {Some("cust-002")}, accountId : {Some("acc-002")},
   amount : {Some(-500), Some(1200000)}, purpose : {Some("Car")},
   tenure : {Null, Some(12)}, collateral : {Null}]
  \cup [customerId : {Some("cust-002")}, accountId : {Some("acc-002")},
        amount : {Some(500000), Some(1000000)}, purpose : {Some("Car")},
        tenure : {Some(12)}, collateral : {Null}]
  \cup [customerId : {Some("cust-002")}, accountId : {Some("acc-002")},
        amount : {Some(1200000)}, purpose : {Some("Car")},
        tenure : {Some(-12)}, collateral : {Null}]
\* Math.random() in thousandths, and Math.floor(Math.random() * 200) + 500.
RandomDraws == {0, 749, 750, 999}
CreditScore(random) == (random * 200) \div 1000 + 500
CreditScores == {CreditScore(random) : random \in RandomDraws}
\* The draws addLoan makes for a loan that comes without a score.
AddLoanDraws == {CreditScore(random) : random \in {0, 999}}
LoanIds == {"loan-001", "loan-002", "loan-003", "loan-004", "loan-999"}
LoanReadIds == {"loan-002", "loan-003", "loan-999"}
RejectBodies == [reason : {Null, Some("Fraud")}]
AirtimeBodies ==
  [phoneNumber : {Some("+233200000000")}, amount : {Some(-100), Some(1000)},
   provider : {Null, Some("MTN"), Some("Glo")}, currency : {Null},
   accountId : {Some("acc-001")}]
PurchaseIds == {"air-001", "air-003", "air-999"}
CustomerIds == {"cust-001", "cust-002", "cust-004"}
RefreshCustomerIds == {"cust-001", "cust-004"}
KycBodies ==
  [documents : {Null, Some(<<"id">>), Some(<<"id", "proof_of_address">>)},
   level : {Null}]
LimitIds == {"acc-001", "acc-003"}
LimitBodies ==
  [dailyLimit : {Null, Some(0), Some(-100), Some(200000)},
   monthlyLimit : {Null, Some(2000000)}]
  \cup [dailyLimit : {Null, Some(200000)}, monthlyLimit : {Some(-100)}]
AvailableQueries ==
  [amount : {Null, Some(<<"a", "b", "c">>), Some(<<"-", "5">>),
             Some(<<"5", "0", "0">>), Some(<<"9", "0", "0">>),
             Some(<<"5", "0", "0", "a", "b", "c">>)},
   period : {Null}]
  \cup [amount : {Some(<<"5", "0", "0">>)},
        period : {Some("daily"), Some("monthly"), Some("weekly")}]

\* The paths of the checkers, each with an id to ask about, and the methods
\* they are asked with.
CheckerPaths ==
  {[path |-> "/accounts/:accountId/check-active", id |-> "acc-001"],
   [path |-> "/transactions/:txnId/check-cleared", id |-> "txn-001"],
   [path |-> "/payments/:paymentId/check-ready", id |-> "pay-001"],
   [path |-> "/loans/:loanId/check-eligible", id |-> "loan-002"],
   [path |-> "/loans/:loanId/check-approved", id |-> "loan-002"],
   [path |-> "/airtime/purchases/:purchaseId/check-completed", id |-> "air-001"],
   [path |-> "/kyc/customers/:customerId/check-approved", id |-> "cust-001"],
   [path |-> "/limits/:accountId/check-available", id |-> "acc-001"]}
Methods == {"GET", "POST"}

\* ----------------------------------------------------------------- actions
\* The server takes one request at a time and the handler runs to completion
\* in one step, leaving its response in resp.  The clock moves on after every
\* step that wrote to a store, so two writes never read the same time.
Budget == now < Now0 + MaxClock
Answer(req, res) == resp = NoResponse /\ resp' = [kind |-> "sent", req |-> req, res |-> res]
Wrote(res) == res.kind = "success"
Clock(res) == now' = IF Wrote(res) THEN now + 1 ELSE now

\* A read that fetches its KYC record through the upserting updateKycRecord.
ReadOnly_Upserts(req, res) ==
  /\ Answer(req, res)
  /\ kycRecords' = IF req.op = "POST /kyc/customers/:customerId/check-approved"
                   THEN updateKycRecord(kycRecords, req.id, EmptyObject).store
                   ELSE kycRecords
  /\ UNCHANGED <<accounts, transactions, payments, loans, airtimePurchases,
                 accountLimits, timers, now>>
\* A GET of one record or a checker: it answers and writes nothing.
ReadOnly(req, res) ==
  /\ Answer(req, res)
  /\ UNCHANGED <<accounts, transactions, payments, loans, airtimePurchases,
                 kycRecords, accountLimits, timers, now>>

AccountGet ==
  \E accountId \in AccountIds :
    ReadOnly([op |-> "GET /accounts/:accountId", id |-> accountId], GetAccount(accountId))

AccountCreate ==
  \E body \in AccountBodies, accountNumber \in AccountNumbers :
    LET out == PostAccounts(body, accountNumber)
    IN  /\ resp = NoResponse
        /\ Wrote(out.res) => Budget
        /\ accounts' = out.store
        /\ Clock(out.res)
        /\ Answer([op |-> "POST /accounts", body |-> body], out.res)
        /\ UNCHANGED <<transactions, payments, loans, airtimePurchases, kycRecords,
                       accountLimits, timers>>

AccountStatus ==
  \E accountId \in AccountIds, body \in StatusBodies :
    LET out == PatchAccountStatus(accountId, body)
    IN  /\ resp = NoResponse
        /\ Wrote(out.res) => Budget
        /\ accounts' = out.store
        /\ Clock(out.res)
        /\ Answer([op |-> "PATCH /accounts/:accountId/status", id |-> accountId,
                   body |-> body], out.res)
        /\ UNCHANGED <<transactions, payments, loans, airtimePurchases, kycRecords,
                       accountLimits, timers>>

AccountCheckActive ==
  \E accountId \in AccountIds :
    ReadOnly([op |-> "POST /accounts/:accountId/check-active", id |-> accountId],
             CheckActive(accountId))

TransactionGet ==
  \E txnId \in TransactionIds :
    ReadOnly([op |-> "GET /transactions/:txnId", id |-> txnId], GetTransaction(txnId))

TransactionCreate ==
  \E body \in TransactionBodies :
    LET out == PostTransactions(body)
    IN  /\ resp = NoResponse
        /\ Wrote(out.res) => Budget
        /\ transactions' = out.store
        /\ Clock(out.res)
        /\ Answer([op |-> "POST /transactions", body |-> body], out.res)
        /\ UNCHANGED <<accounts, payments, loans, airtimePurchases, kycRecords,
                       accountLimits, timers>>

TransactionCheckCleared ==
  \E txnId \in TransactionIds :
    ReadOnly([op |-> "GET /transactions/:txnId/check-cleared", id |-> txnId],
             CheckCleared(txnId))

PaymentGet ==
  \E paymentId \in PaymentReadIds :
    ReadOnly([op |-> "GET /payments/:paymentId", id |-> paymentId], GetPayment(paymentId))

PaymentInitiate ==
  \E body \in PaymentBodies :
    LET out == PostPaymentsInitiate(body)
    IN  /\ resp = NoResponse
        /\ Wrote(out.res) => Budget
        /\ payments' = out.store
        /\ Clock(out.res)
        /\ Answer([op |-> "POST /payments/initiate", body |-> body], out.res)
        /\ UNCHANGED <<accounts, transactions, loans, airtimePurchases, kycRecords,
                       accountLimits, timers>>

PaymentCancel ==
  \E paymentId \in PaymentIds :
    LET out == PostPaymentsCancel(paymentId)
    IN  /\ resp = NoResponse
        /\ Wrote(out.res) => Budget
        /\ payments' = out.store
        /\ Clock(out.res)
        /\ Answer([op |-> "POST /payments/:paymentId/cancel", id |-> paymentId], out.res)
        /\ UNCHANGED <<accounts, transactions, loans, airtimePurchases, kycRecords,
                       accountLimits, timers>>

PaymentCheckReady ==
  \E paymentId \in PaymentReadIds :
    ReadOnly([op |-> "GET /payments/:paymentId/check-ready", id |-> paymentId],
             CheckReady(paymentId))

LoanGet ==
  \E loanId \in LoanReadIds :
    ReadOnly([op |-> "GET /loans/:loanId", id |-> loanId], GetLoan(loanId))

LoanApply ==
  \E body \in LoanBodies, score \in CreditScores, random1 \in AddLoanDraws,
     random2 \in AddLoanDraws :
    LET out == PostLoansApply(body, score, random1, random2)
    IN  /\ resp = NoResponse
        /\ Wrote(out.res) => Budget
        /\ loans' = out.store
        /\ Clock(out.res)
        /\ Answer([op |-> "POST /loans/apply", body |-> body], out.res)
        /\ UNCHANGED <<accounts, transactions, payments, airtimePurchases, kycRecords,
                       accountLimits, timers>>

LoanCheckEligible ==
  \E loanId \in LoanReadIds :
    ReadOnly([op |-> "GET /loans/:loanId/check-eligible", id |-> loanId],
             CheckEligible(loanId))

LoanCheckApproved ==
  \E loanId \in LoanReadIds :
    ReadOnly([op |-> "GET /loans/:loanId/check-approved", id |-> loanId],
             CheckLoanApproved(loanId))

LoanApprove ==
  \E loanId \in LoanIds :
    LET out == PostLoansApprove(loanId)
    IN  /\ resp = NoResponse
        /\ Wrote(out.res) => Budget
        /\ loans' = out.store
        /\ Clock(out.res)
        /\ Answer([op |-> "POST /loans/:loanId/approve", id |-> loanId], out.res)
        /\ UNCHANGED <<accounts, transactions, payments, airtimePurchases, kycRecords,
                       accountLimits, timers>>

LoanReject ==
  \E loanId \in LoanIds, body \in RejectBodies :
    LET out == PostLoansReject(loanId, body)
    IN  /\ resp = NoResponse
        /\ Wrote(out.res) => Budget
        /\ loans' = out.store
        /\ Clock(out.res)
        /\ Answer([op |-> "POST /loans/:loanId/reject", id |-> loanId, body |-> body],
                  out.res)
        /\ UNCHANGED <<accounts, transactions, payments, airtimePurchases, kycRecords,
                       accountLimits, timers>>

AirtimeGet ==
  \E purchaseId \in PurchaseIds :
    ReadOnly([op |-> "GET /airtime/purchases/:purchaseId", id |-> purchaseId],
             GetAirtimePurchase(purchaseId))

AirtimePurchase ==
  \E body \in AirtimeBodies :
    LET out == PostAirtimePurchase(body)
    IN  /\ resp = NoResponse
        /\ Wrote(out.res) => Budget
        /\ airtimePurchases' = out.store
        /\ timers' = IF out.timer = Null THEN timers ELSE timers \cup {Val(out.timer)}
        /\ Clock(out.res)
        /\ Answer([op |-> "POST /airtime/purchase", body |-> body], out.res)
        /\ UNCHANGED <<accounts, transactions, payments, loans, kycRecords,
                       accountLimits>>

\* The callback of a pending timer runs, once, some time after the purchase.
AirtimeTimeout ==
  \E purchaseId \in timers :
    /\ airtimePurchases' = PurchaseTimeout(purchaseId).store
    /\ timers' = timers \ {purchaseId}
    /\ now' = now + 1
    /\ UNCHANGED <<accounts, transactions, payments, loans, kycRecords, accountLimits,
                   resp>>

\* The response has gone out; the server takes the next request.
Respond ==
  /\ resp # NoResponse
  /\ resp' = NoResponse
  /\ UNCHANGED <<accounts, transactions, payments, loans, airtimePurchases,
                 kycRecords, accountLimits, timers, now>>

AirtimeCheckCompleted ==
  \E purchaseId \in PurchaseIds :
    ReadOnly([op |-> "GET /airtime/purchases/:purchaseId/check-completed",
              id |-> purchaseId], CheckCompleted(purchaseId))

KycGet ==
  \E customerId \in CustomerIds :
    ReadOnly([op |-> "GET /kyc/customers/:customerId", id |-> customerId],
             GetKyc(customerId))

KycRefresh ==
  \E customerId \in RefreshCustomerIds, body \in KycBodies :
    LET out == PostKycRefresh(customerId, body)
    IN  /\ resp = NoResponse
        /\ Wrote(out.res) => Budget
        /\ kycRecords' = out.store
        /\ Clock(out.res)
        /\ Answer([op |-> "POST /kyc/customers/:customerId/refresh", id |-> customerId,
                   body |-> body], out.res)
        /\ UNCHANGED <<accounts, transactions, payments, loans, airtimePurchases,
                       accountLimits, timers>>

KycCheckApproved ==
  \E customerId \in CustomerIds :
    ReadOnly([op |-> "POST /kyc/customers/:customerId/check-approved", id |-> customerId],
             CheckKycApproved(customerId))

LimitGet ==
  \E accountId \in LimitIds :
    ReadOnly([op |-> "GET /limits/:accountId", id |-> accountId], GetLimits(accountId))

LimitUpdate ==
  \E accountId \in LimitIds, body \in LimitBodies :
    LET out == PostLimitsUpdate(accountId, body)
    IN  /\ resp = NoResponse
        /\ Wrote(out.res) => Budget
        /\ accountLimits' = out.store
        /\ Clock(out.res)
        /\ Answer([op |-> "POST /limits/:accountId/update", id |-> accountId,
                   body |-> body], out.res)
        /\ UNCHANGED <<accounts, transactions, payments, loans, airtimePurchases,
                       kycRecords, timers>>

LimitCheckAvailable ==
  \E accountId \in LimitIds, query \in AvailableQueries :
    ReadOnly([op |-> "GET /limits/:accountId/check-available", id |-> accountId,
              query |-> query], CheckAvailable(accountId, query))

\* A request with a method no route has for its path falls through the routers
\* to the 404 handler.
Unrouted ==
  \E method \in Methods, checker \in CheckerPaths :
    /\ (method \o " " \o checker.path) \notin Routes
    /\ ReadOnly([op |-> method \o " " \o checker.path, id |-> checker.id],
                EndpointNotFound)

Next ==
  \/ AccountGet \/ AccountCreate \/ AccountStatus \/ AccountCheckActive
  \/ TransactionGet \/ TransactionCreate \/ TransactionCheckCleared
  \/ PaymentGet \/ PaymentInitiate \/ PaymentCancel \/ PaymentCheckReady
  \/ LoanGet \/ LoanApply \/ LoanCheckEligible \/ LoanCheckApproved
  \/ LoanApprove \/ LoanReject
  \/ AirtimeGet \/ AirtimePurchase \/ AirtimeTimeout \/ AirtimeCheckCompleted
  \/ KycGet \/ KycRefresh \/ KycCheckApproved
  \/ LimitGet \/ LimitUpdate \/ LimitCheckAvailable
  \/ Unrouted
  \/ Respond

Spec == Init /\ [][Next]_vars

\* The event loop runs every timer callback that is due.
FairSpec == Spec /\ WF_vars(AirtimeTimeout)

\* ------------------------------------------------------------- properties
\* The step is the handling of a request of route op.
Handles(op) == resp = NoResponse /\ resp'.kind = "sent" /\ resp'.req.op = op
\* A response to a request of route op is being sent.
Sent(op) == resp.kind = "sent" /\ resp.req.op = op
AllUnchanged == UNCHANGED <<accounts, transactions, payments, loans, airtimePurchases,
                            kycRecords, accountLimits, timers>>
\* The records a store held before the step are all still there.
Kept(store, storeNext) == Len(storeNext) >= Len(store)

\* C1: approving or rejecting a loan that is not pending is answered with an
\* error, and no stored record changes.
C1_NonPendingLoanGuard ==
  [][\A op \in {"POST /loans/:loanId/approve", "POST /loans/:loanId/reject"} :
       (/\ Handles(op)
        /\ getLoanById(loans, resp'.req.id) # Null
        /\ Val(getLoanById(loans, resp'.req.id)).status # "pending")
       => (resp'.res.kind = "error" /\ AllUnchanged)]_vars
C1_Witness ==
  /\ Sent("POST /loans/:loanId/approve")
  /\ resp.req.id = "loan-003"
  /\ resp.res.kind = "error"
  /\ resp.res.code = 400

\* C2: a payment can be cancelled only while pending: cancelling a completed or
\* an already cancelled payment is answered with an error and changes nothing,
\* cancelling a pending one succeeds and leaves it cancelled.
C2_CancelOnlyFromPending ==
  [][(/\ Handles("POST /payments/:paymentId/cancel")
      /\ getPaymentById(payments, resp'.req.id) # Null)
     => IF Val(getPaymentById(payments, resp'.req.id)).status = "pending"
        THEN /\ resp'.res.kind = "success"
             /\ Val(getPaymentById(payments', resp'.req.id)).status = "cancelled"
        ELSE resp'.res.kind = "error" /\ AllUnchanged]_vars

\* C3: a terminal timestamp that is set is never changed: a loan's approvedAt,
\* a payment's or an airtime purchase's completedAt, a KYC record's verifiedAt
\* and expiresAt.
WriteOnce(store, storeNext, field) ==
  /\ Kept(store, storeNext)
  /\ \A i \in 1..Len(store) :
       store[i][field] # Null => storeNext[i][field] = store[i][field]
C3_TerminalTimestampsWriteOnce ==
  [][/\ WriteOnce(loans, loans', "approvedAt")
     /\ WriteOnce(payments, payments', "completedAt")
     /\ WriteOnce(airtimePurchases, airtimePurchases', "completedAt")
     /\ WriteOnce(kycRecords, kycRecords', "verifiedAt")
     /\ WriteOnce(kycRecords, kycRecords', "expiresAt")]_vars
\* A refresh has approved a customer who was verified before the server started.
C3_Witness ==
  /\ Sent("POST /kyc/customers/:customerId/refresh")
  /\ resp.res.data.status = "approved"
  /\ resp.res.data.verifiedAt # Null
  /\ Val(resp.res.data.verifiedAt) < Now0

\* C4 as claimed: no update changes the updatedAt of an account or of an
\* account-limit record.
C4_UpdatedAtNeverOverwritten ==
  [][/\ Kept(accounts, accounts') /\ Kept(accountLimits, accountLimits')
     /\ \A i \in 1..Len(accounts) : accounts'[i].updatedAt = accounts[i].updatedAt
     /\ \A i \in 1..Len(accountLimits) :
          accountLimits'[i].updatedAt = accountLimits[i].updatedAt]_vars
\* C4 as amended: every successful PATCH /accounts/:id/status and POST
\* /limits/:id/update sets the updatedAt of its record to the time of the
\* update; no other step changes an updatedAt, and none makes it earlier.
UpdatedAtFollows(store, storeNext, key, op) ==
  /\ Kept(store, storeNext)
  /\ (Handles(op) /\ resp'.res.kind = "success")
     => Val(Find(storeNext, key, resp'.req.id)).updatedAt = now
  /\ \A i \in 1..Len(store) :
       IF Handles(op) /\ resp'.res.kind = "success" /\ resp'.req.id = store[i][key]
       THEN storeNext[i].updatedAt >= store[i].updatedAt
       ELSE storeNext[i].updatedAt = store[i].updatedAt
C4_UpdatedAtIsLastUpdate ==
  [][/\ UpdatedAtFollows(accounts, accounts', "id", "PATCH /accounts/:accountId/status")
     /\ UpdatedAtFollows(accountLimits, accountLimits', "accountId",
                         "POST /limits/:accountId/update")]_vars
C4_Witness ==
  /\ Sent("PATCH /accounts/:accountId/status")
  /\ resp.res.kind = "success"
  /\ accounts[1].updatedAt > SeedAccounts[1].updatedAt

\* C5: after a refresh that yields status approved, the stored KYC record has
\* verifiedAt and expiresAt set, whether the record existed or the refresh
\* created it.
C5_ApprovedRefreshIsVerified ==
  (Sent("POST /kyc/customers/:customerId/refresh") /\ resp.res.data.status = "approved")
  => LET kyc == Val(getKycRecord(kycRecords, resp.req.id))
     IN  kyc.verifiedAt # Null /\ kyc.expiresAt # Null

\* The purchases POST /airtime/purchase can have created.
CreatedPurchaseIds ==
  {MakeId("air-", Len(SeedAirtimePurchases) + k) : k \in 1..(MaxClock + 1)}
IsCompleted(purchaseId) ==
  /\ getAirtimePurchaseById(airtimePurchases, purchaseId) # Null
  /\ Val(getAirtimePurchaseById(airtimePurchases, purchaseId)).status = "completed"

\* C6: every airtime purchase created by POST /airtime/purchase is eventually
\* completed, whatever requests come in the meantime, once its timer is left
\* to fire.
C6_CreatedPurchaseCompletes ==
  \A purchaseId \in CreatedPurchaseIds :
    (getAirtimePurchaseById(airtimePurchases, purchaseId) # Null) ~> IsCompleted(purchaseId)
\* A created purchase is completed, its timer spent, after another request was
\* handled.
C6_Witness ==
  /\ IsCompleted("air-003")
  /\ "air-003" \notin timers
  /\ now >= Now0 + 2

\* C7: a completed airtime purchase has completedAt set and is delivered, a
\* pending one has no completedAt and is processing, and a completed purchase
\* never becomes pending again.
AirtimeConsistent(purchase) ==
  /\ purchase.status = "completed"
     => (purchase.completedAt # Null /\ purchase.deliveryStatus = "delivered")
  /\ purchase.status = "pending"
     => (purchase.completedAt = Null /\ purchase.deliveryStatus = "processing")
C7_AirtimeStatusConsistent ==
  /\ [](\A i \in 1..Len(airtimePurchases) : AirtimeConsistent(airtimePurchases[i]))
  /\ [][/\ Kept(airtimePurchases, airtimePurchases')
        /\ \A i \in 1..Len(airtimePurchases) :
             airtimePurchases[i].status = "completed"
             => airtimePurchases'[i].status = "completed"]_vars
\* The timer of a created purchase has completed it at the time it fired.
C7_Witness ==
  \E i \in 1..Len(airtimePurchases) :
    /\ i > Len(SeedAirtimePurchases)
    /\ airtimePurchases[i].status = "completed"
    /\ airtimePurchases[i].completedAt = Some(now - 1)
    /\ airtimePurchases[i].deliveryStatus = "delivered"

\* C8: a request answered with an error envelope changes no store and sets no
\* timer.
C8_ErrorChangesNothing ==
  [][(resp = NoResponse /\ resp'.kind = "sent" /\ resp'.res.kind = "error")
     => AllUnchanged]_vars
\* A limit update is rejected for its dailyLimit while its monthlyLimit is valid.
C8_Witness ==
  /\ Sent("POST /limits/:accountId/update")
  /\ resp.res.kind = "error"
  /\ resp.req.body.dailyLimit = Some(-100)
  /\ resp.req.body.monthlyLimit = Some(2000000)

\* The checker routes, and the answer of each to a request.
CheckerOps ==
  {"POST /accounts/:accountId/check-active", "GET /transactions/:txnId/check-cleared",
   "GET /payments/:paymentId/check-ready", "GET /loans/:loanId/check-eligible",
   "GET /loans/:loanId/check-approved",
   "GET /airtime/purchases/:purchaseId/check-completed",
   "POST /kyc/customers/:customerId/check-approved",
   "GET /limits/:accountId/check-available"}
Checker(req) ==
  CASE req.op = "POST /accounts/:accountId/check-active" -> CheckActive(req.id)
    [] req.op = "GET /transactions/:txnId/check-cleared" -> CheckCleared(req.id)
    [] req.op = "GET /payments/:paymentId/check-ready" -> CheckReady(req.id)
    [] req.op = "GET /loans/:loanId/check-eligible" -> CheckEligible(req.id)
    [] req.op = "GET /loans/:loanId/check-approved" -> CheckLoanApproved(req.id)
    [] req.op = "GET /airtime/purchases/:purchaseId/check-completed" -> CheckCompleted(req.id)
    [] req.op = "POST /kyc/customers/:customerId/check-approved" -> CheckKycApproved(req.id)
    [] req.op = "GET /limits/:accountId/check-available" -> CheckAvailable(req.id, req.query)
Verdict(res) == <<res.result, res.reason, res.metadata>>

\* C9: a checker changes no store, and the same checker called again with the
\* same arguments right after gives the same result, reason and metadata.
C9_CheckerReadOnlyAndRepeatable ==
  [][\A op \in CheckerOps :
       Handles(op)
       => /\ AllUnchanged
          /\ \E req \in {resp'.req} : Verdict(Checker(req))' = Verdict(resp'.res)]_vars
\* A checker has answered true.
C9_Witness ==
  /\ resp.kind = "sent"
  /\ resp.req.op \in CheckerOps
  /\ resp.res.kind = "checker"
  /\ resp.res.result = TRUE

\* The store a checker looks its id up in, the key, and what it answers when
\* the id is unknown.
CheckerStore(op) ==
  CASE op = "POST /accounts/:accountId/check-active" -> accounts
    [] op = "GET /transactions/:txnId/check-cleared" -> transactions
    [] op = "GET /payments/:paymentId/check-ready" -> payments
    [] op = "GET /loans/:loanId/check-eligible" -> loans
    [] op = "GET /loans/:loanId/check-approved" -> loans
    [] op = "GET /airtime/purchases/:purchaseId/check-completed" -> airtimePurchases
    [] op = "POST /kyc/customers/:customerId/check-approved" -> kycRecords
    [] op = "GET /limits/:accountId/check-available" -> accountLimits
CheckerKey(op) ==
  CASE op = "POST /kyc/customers/:customerId/check-approved" -> "customerId"
    [] op = "GET /limits/:accountId/check-available" -> "accountId"
    [] OTHER -> "id"
NotFoundReasons ==
  {"Account not found", "Transaction not found", "Payment not found", "Loan not found",
   "Airtime purchase not found", "KYC record not found", "Account limits not found"}

\* C10: a checker never answers with an error envelope, and for an id that
\* resolves to no record it answers result false, "<Resource> not found" and a
\* metadata that holds the requested id and nothing else.
C10_CheckerFoldsNotFound ==
  (resp.kind = "sent" /\ resp.req.op \in CheckerOps)
  => /\ resp.res.kind = "checker"
     /\ Find(CheckerStore(resp.req.op), CheckerKey(resp.req.op), resp.req.id) = Null
        => /\ resp.res.result = FALSE
           /\ resp.res.reason \in NotFoundReasons
           /\ Cardinality(DOMAIN resp.res.metadata) = 1
           /\ \A f \in DOMAIN resp.res.metadata : resp.res.metadata[f] = resp.req.id
\* The eligibility of a loan that does not exist was asked for.
C10_Witness ==
  /\ Sent("GET /loans/:loanId/check-eligible")
  /\ resp.req.id = "loan-999"
  /\ resp.res.kind = "checker"
  /\ resp.res.reason = "Loan not found"

\* The stores whose records are made by a create operation, the create routes,
\* the store of each and the records a create answers with.
IdStores == <<accounts, transactions, payments, loans, airtimePurchases>>
CreateOps ==
  {"POST /accounts", "POST /transactions", "POST /payments/initiate",
   "POST /loans/apply", "POST /airtime/purchase"}
CreateStore(op) ==
  CASE op = "POST /accounts" -> accounts
    [] op = "POST /transactions" -> transactions
    [] op = "POST /payments/initiate" -> payments
    [] op = "POST /loans/apply" -> loans
    [] op = "POST /airtime/purchase" -> airtimePurchases
Returned(op, res) ==
  IF op = "POST /transactions"
  THEN {res.data.debitTransaction, res.data.creditTransaction}
  ELSE {res.data}
DistinctIds(store) ==
  \A i, j \in 1..Len(store) : store[i].id = store[j].id => i = j
IdsKept(store, storeNext) ==
  /\ Len(storeNext) >= Len(store)
  /\ \A i \in 1..Len(store) : storeNext[i].id = store[i].id

\* C11: in each of the five created collections the ids are pairwise distinct;
\* no step removes a record or changes the id of one; and the id a create
\* answers with was in use by no record before and, looked up right after the
\* create, gives the record the create returned.
C11_IdsUniqueStableAndFound ==
  /\ [](\A k \in 1..Len(IdStores) : DistinctIds(IdStores[k]))
  /\ [][/\ \A k \in 1..Len(IdStores) : IdsKept(IdStores[k], IdStores'[k])
        /\ \A op \in CreateOps :
             (Handles(op) /\ resp'.res.kind = "success")
             => \A rec \in Returned(op, resp'.res) :
                  /\ Find(CreateStore(op), "id", rec.id) = Null
                  /\ Find(CreateStore(op)', "id", rec.id) = Some(rec)]_vars
\* A second account has been created, after a transfer or another account.
C11_Witness ==
  /\ Sent("POST /accounts")
  /\ resp.res.kind = "success"
  /\ resp.res.data.id \in {"acc-004", "acc-005"}
  /\ Len(accounts) + Len(transactions) >= Len(SeedAccounts) + Len(SeedTransactions) + 2
  /\ getAccountById(accounts, resp.res.data.id) = Some(resp.res.data)

\* The clauses of payment readiness in their order, each with whether it fails
\* for the payment, and the failing ones.
ReadyClauses(payment) == <<
  [fails |-> ~payment.kycComplete, text |-> "KYC not complete"],
  [fails |-> ~payment.sufficientBalance, text |-> "Insufficient balance"],
  [fails |-> payment.status # "pending", text |-> "Payment status is " \o payment.status] >>
IsFailing(clause) == clause.fails
FailingClauses(payment) == SelectSeq(ReadyClauses(payment), IsFailing)
RECURSIVE CommaJoined(_)
CommaJoined(clauses) ==
  IF Len(clauses) = 0 THEN ""
  ELSE IF Len(clauses) = 1 THEN clauses[1].text
  ELSE clauses[1].text \o ", " \o CommaJoined(Tail(clauses))

\* C12: for an existing payment check-ready answers result = kycComplete and
\* sufficientBalance and status pending; a false result has as its reason the
\* failing clauses, comma-joined in the order KYC, balance, status, and a true
\* result has no failing clause.
C12_ReadyListsFailingClauses ==
  (Sent("GET /payments/:paymentId/check-ready")
   /\ getPaymentById(payments, resp.req.id) # Null)
  => LET payment == Val(getPaymentById(payments, resp.req.id))
     IN  /\ resp.res.result = (/\ payment.kycComplete
                               /\ payment.sufficientBalance
                               /\ payment.status = "pending")
         /\ ~resp.res.result => resp.res.reason = CommaJoined(FailingClauses(payment))
         /\ resp.res.result => FailingClauses(payment) = <<>>
\* A cancelled payment with too small a balance fails two clauses.
C12_Witness ==
  /\ Sent("GET /payments/:paymentId/check-ready")
  /\ resp.req.id = "pay-002"
  /\ resp.res.result = FALSE
  /\ resp.res.reason = "Insufficient balance, Payment status is cancelled"

\* C13: for an existing limit, an amount above 0 and the period daily (also
\* when omitted) or monthly, check-available reports remaining = limit - used of
\* that period and result = (remaining >= amount).
C13_AvailableIsLimitMinusUsed ==
  (/\ Sent("GET /limits/:accountId/check-available")
   /\ getAccountLimit(accountLimits, resp.req.id) # Null
   /\ resp.req.query.amount # Null
   /\ parseFloat(Val(resp.req.query.amount)) # Null
   /\ Val(parseFloat(Val(resp.req.query.amount))) > 0
   /\ resp.req.query.period \in {Null, Some("daily"), Some("monthly")})
  => LET limit == Val(getAccountLimit(accountLimits, resp.req.id))
         amount == Val(parseFloat(Val(resp.req.query.amount)))
         remaining == IF resp.req.query.period = Some("monthly")
                      THEN limit.monthlyLimit - limit.monthlyUsed
                      ELSE limit.dailyLimit - limit.dailyUsed
     IN  /\ resp.res.metadata.remaining = remaining
         /\ resp.res.result = (remaining >= amount)
\* With a daily limit of 1000 and 250 used, 900 is not available and 750 remain.
C13_Witness ==
  /\ Sent("GET /limits/:accountId/check-available")
  /\ resp.req.id = "acc-001"
  /\ resp.req.query = [amount |-> Some(<<"9", "0", "0">>), period |-> Null]
  /\ Val(getAccountLimit(accountLimits, "acc-001")).dailyLimit = 100000
  /\ Val(getAccountLimit(accountLimits, "acc-001")).dailyUsed = 25000
  /\ resp.res.result = FALSE
  /\ resp.res.metadata.remaining = 75000

\* The characters are a decimal numeral: an optional sign, then digits with at
\* most one point among them, and nothing else.
IsNumeral(chars) ==
  /\ \E i \in 1..Len(chars) : IsDigit(chars[i])
  /\ \A i \in 1..Len(chars) :
       \/ IsDigit(chars[i])
       \/ chars[i] \in {"-", "+"} /\ i = 1
       \/ chars[i] = "." /\ \A j \in 1..Len(chars) : chars[j] = "." => j = i
\* The amount of a query is missing, not a number, or not above 0.
InvalidAmount(query) ==
  \/ query.amount = Null
  \/ ~IsNumeral(Val(query.amount))
  \/ Val(parseFloat(Val(query.amount))) <= 0
InvalidPeriod(query) == query.period \notin {Null, Some("daily"), Some("monthly")}

\* C14: for an existing limit, check-available with a missing, non-numeric or
\* non-positive amount answers result false with the reason about the amount,
\* otherwise with a period other than daily or monthly it answers result false
\* with the reason about the period; in both cases the metadata holds the
\* account id only (no remaining, limit or used).
C14_InvalidAmountOrPeriodRejected ==
  (/\ Sent("GET /limits/:accountId/check-available")
   /\ getAccountLimit(accountLimits, resp.req.id) # Null
   /\ (InvalidAmount(resp.req.query) \/ InvalidPeriod(resp.req.query)))
  => /\ resp.res.result = FALSE
     /\ resp.res.reason = IF InvalidAmount(resp.req.query)
                          THEN "Amount must be provided and greater than 0"
                          ELSE "Period must be \"daily\" or \"monthly\""
     /\ DOMAIN resp.res.metadata = {"accountId"}

\* C15: for an existing loan check-eligible answers result = eligible and
\* creditScore >= 650, and a false result has the reason that the loan's credit
\* score is below the threshold 650.
C15_EligibleIsFlagAndScore ==
  (Sent("GET /loans/:loanId/check-eligible") /\ getLoanById(loans, resp.req.id) # Null)
  => LET loan == Val(getLoanById(loans, resp.req.id))
     IN  /\ resp.res.result = (loan.eligible /\ loan.creditScore >= 650)
         /\ ~resp.res.result
            => resp.res.reason = "Credit score " \o ToString(loan.creditScore)
                                 \o " is below minimum threshold (650)"
\* The rejected loan of score 600 is found not eligible.
C15_Witness ==
  /\ Sent("GET /loans/:loanId/check-eligible")
  /\ resp.req.id = "loan-003"
  /\ resp.res.result = FALSE
  /\ resp.res.reason = "Credit score 600 is below minimum threshold (650)"

\* C16: every stored loan has eligible = (creditScore >= 650), and the loan a
\* successful POST /loans/apply creates has a score from 500 up to 699, is
\* pending and has neither approvedAt nor disbursedAt.
C16_EligibleFollowsScore ==
  /\ [](\A i \in 1..Len(loans) : loans[i].eligible = (loans[i].creditScore >= 650))
  /\ [][(Handles("POST /loans/apply") /\ resp'.res.kind = "success")
        => LET loan == loans'[Len(loans')]
           IN  /\ Len(loans') = Len(loans) + 1
               /\ loan = resp'.res.data
               /\ loan.creditScore \in 500..699
               /\ loan.status = "pending"
               /\ loan.approvedAt = Null
               /\ loan.disbursedAt = Null]_vars
\* A loan was created with the score 650, the lowest that is eligible.
C16_Witness ==
  /\ Sent("POST /loans/apply")
  /\ resp.res.kind = "success"
  /\ resp.res.data.creditScore = 650
  /\ resp.res.data.eligible = TRUE
  /\ getLoanById(loans, resp.res.data.id) = Some(resp.res.data)

\* A quotient <<numerator, denominator>> in lowest terms with a positive
\* denominator.
Abs(n) == IF n < 0 THEN -n ELSE n
RECURSIVE GCD(_, _)
GCD(a, b) == IF b = 0 THEN a ELSE GCD(b, a % b)
LowestTerms(q) ==
  LET g == GCD(Abs(q[1]), Abs(q[2]))
      sign == IF q[2] < 0 THEN -1 ELSE 1
  IN  <<sign * (q[1] \div g), sign * (q[2] \div g)>>

\* C17: a loan created by POST /loans/apply with amount > 0 and tenure t has
\* the interest rate 7.5 above 10000, 8.5 above 5000 up to 10000 and 10.0 up to
\* 5000, and monthlyPayment * t = amount * (1 + interestRate / 100), that is
\* monthlyPayment is the quotient of amount * (1 + interestRate / 100) by t;
\* amounts are in hundredths and rates in tenths of a percent.
C17_RateTiersAndMonthlyPayment ==
  (Sent("POST /loans/apply") /\ resp.res.kind = "success")
  => LET loan == resp.res.data
         amount == Val(resp.req.body.amount)
         t == Val(resp.req.body.tenure)
     IN  /\ amount > 0
         /\ amount > 1000000 => loan.interestRate = 75
         /\ (500000 < amount /\ amount <= 1000000) => loan.interestRate = 85
         /\ amount <= 500000 => loan.interestRate = 100
         /\ loan.monthlyPayment # Null
         /\ loan.monthlyPayment[2] # 0
         /\ LowestTerms(loan.monthlyPayment)
            = LowestTerms(<<amount * (1000 + loan.interestRate), 1000 * t>>)
\* A loan of exactly 10000 was created at 8.5 percent.
C17_Witness ==
  /\ Sent("POST /loans/apply")
  /\ resp.res.kind = "success"
  /\ resp.req.body.amount = Some(1000000)
  /\ resp.res.data.interestRate = 85
  /\ resp.res.data.monthlyPayment = <<1000000 * 1085, 12000>>

\* C18: a KYC refresh with at least 2 documents in the request leaves the
\* record approved, of low risk and with no pending item; with fewer or none it
\* leaves the record pending, of medium risk and with the pending items
\* proof_of_address and income_statement, whatever the record was before.
C18_RefreshDependsOnSuppliedDocuments ==
  Sent("POST /kyc/customers/:customerId/refresh")
  => LET kyc == Val(getKycRecord(kycRecords, resp.req.id))
         supplied == IF resp.req.body.documents = Null THEN 0
                     ELSE Len(Val(resp.req.body.documents))
     IN  /\ resp.res.kind = "success"
         /\ getKycRecord(kycRecords, resp.req.id) = Some(resp.res.data)
         /\ supplied >= 2
            => (kyc.status = "approved" /\ kyc.riskRating = "low" /\ kyc.pendingItems = <<>>)
         /\ supplied < 2
            => /\ kyc.status = "pending"
               /\ kyc.riskRating = "medium"
               /\ kyc.pendingItems = <<"proof_of_address", "income_statement">>
\* The approved record of cust-001, holding two documents, was refreshed with
\* no documents and is pending.
C18_Witness ==
  /\ Sent("POST /kyc/customers/:customerId/refresh")
  /\ resp.req.id = "cust-001"
  /\ resp.req.body.documents = Null
  /\ Len(resp.res.data.documents) = 2
  /\ resp.res.data.status = "pending"
  /\ resp.res.data.verifiedAt # Null

\* The keys of a keyed store are pairwise distinct.
DistinctKeys(store, key) ==
  \A i, j \in 1..Len(store) : store[i][key] = store[j][key] => i = j
\* The step from store to storeNext is an upsert for the key value v: with no
\* record for v one record for v is pushed and the others stay, with a record
\* for v that record alone may change and it keeps its place and its key.
Upserted(store, storeNext, key, v) ==
  IF Find(store, key, v) = Null
  THEN /\ Len(storeNext) = Len(store) + 1
       /\ SubSeq(storeNext, 1, Len(store)) = store
       /\ storeNext[Len(storeNext)][key] = v
  ELSE /\ Len(storeNext) = Len(store)
       /\ \A i \in 1..Len(store) :
            IF store[i][key] = v THEN storeNext[i][key] = v ELSE storeNext[i] = store[i]
\* The supplied value of a field, or the default when the request has none.
Supplied(x, default) == IF x = Null THEN default ELSE Val(x)

\* C19: KYC records and account limits are upserted by key.  There is at most
\* one KYC record per customerId and one limit record per accountId; a refresh
\* or a successful limit update for a key without a record pushes one record
\* for it, the defaults overlaid by the supplied fields, and for a key with a
\* record changes that record in place.
C19_UpsertByKey ==
  /\ [](DistinctKeys(kycRecords, "customerId") /\ DistinctKeys(accountLimits, "accountId"))
  /\ [][/\ Handles("POST /kyc/customers/:customerId/refresh")
           => /\ Upserted(kycRecords, kycRecords', "customerId", resp'.req.id)
              /\ getKycRecord(kycRecords, resp'.req.id) = Null
                 => LET kyc == kycRecords'[Len(kycRecords')]
                    IN  /\ kyc.level = "tier1"
                        /\ kyc.verifiedAt = Null
                        /\ kyc.expiresAt = Null
                        /\ kyc.documents = Supplied(resp'.req.body.documents, <<>>)
        /\ (Handles("POST /limits/:accountId/update") /\ resp'.res.kind = "success")
           => /\ Upserted(accountLimits, accountLimits', "accountId", resp'.req.id)
              /\ getAccountLimit(accountLimits, resp'.req.id) = Null
                 => LET limit == accountLimits'[Len(accountLimits')]
                    IN  /\ limit.dailyLimit = Supplied(resp'.req.body.dailyLimit, 100000)
                        /\ limit.monthlyLimit = Supplied(resp'.req.body.monthlyLimit, 1000000)
                        /\ limit.dailyUsed = 0
                        /\ limit.monthlyUsed = 0
                        /\ limit.currency = "GHS"]_vars
\* The first limit update for acc-003 made its record, the monthly limit by
\* default.
C19_Witness ==
  /\ Sent("POST /limits/:accountId/update")
  /\ resp.req.id = "acc-003"
  /\ resp.req.body = [dailyLimit |-> Some(200000), monthlyLimit |-> Null]
  /\ Len(accountLimits) = Len(SeedAccountLimits) + 1
  /\ getAccountLimit(accountLimits, "acc-003") = Some(resp.res.data)
  /\ resp.res.data.monthlyLimit = 1000000
  /\ resp.res.data.dailyUsed = 0

\* A quotient <<numerator, denominator>> that is not below 0.
NonNegativeQuotient(q) == (q[1] >= 0 /\ q[2] > 0) \/ (q[1] <= 0 /\ q[2] < 0)

\* C20: amounts are never negative: every account balance, every transaction,
\* payment, loan and airtime-purchase amount, and every loan's monthlyPayment
\* that is set, is at least 0.
C20_AmountsNonNegative ==
  /\ \A i \in 1..Len(accounts) : accounts[i].balance >= 0
  /\ \A i \in 1..Len(transactions) : transactions[i].amount >= 0
  /\ \A i \in 1..Len(payments) : payments[i].amount >= 0
  /\ \A i \in 1..Len(loans) :
       /\ loans[i].amount >= 0
       /\ loans[i].monthlyPayment # Null => NonNegativeQuotient(loans[i].monthlyPayment)
  /\ \A i \in 1..Len(airtimePurchases) : airtimePurchases[i].amount >= 0

\* C21: the fields of every account-limit record are never negative: the daily
\* and the monthly limit and what is used of each are at least 0.
C21_LimitFieldsNonNegative ==
  \A i \in 1..Len(accountLimits) :
    /\ accountLimits[i].dailyLimit >= 0
    /\ accountLimits[i].monthlyLimit >= 0
    /\ accountLimits[i].dailyUsed >= 0
    /\ accountLimits[i].monthlyUsed >= 0
\* A daily limit of 0 was accepted and stored.
C21_Witness ==
  /\ Sent("POST /limits/:accountId/update")
  /\ resp.res.kind = "success"
  /\ resp.req.body.dailyLimit = Some(0)
  /\ Val(getAccountLimit(accountLimits, resp.req.id)).dailyLimit = 0

\* C22: no step changes the balance of an account or what is used of a limit.
C22_NoMonetaryMovement ==
  [][/\ Kept(accounts, accounts') /\ Kept(accountLimits, accountLimits')
     /\ \A i \in 1..Len(accounts) : accounts'[i].balance = accounts[i].balance
     /\ \A i \in 1..Len(accountLimits) :
          /\ accountLimits'[i].dailyUsed = accountLimits[i].dailyUsed
          /\ accountLimits'[i].monthlyUsed = accountLimits[i].monthlyUsed]_vars
\* After a transfer from acc-001, a payment from acc-001 was initiated and the
\* balance of acc-001 is what it was.
C22_Witness ==
  /\ Sent("POST /payments/initiate")
  /\ resp.res.kind = "success"
  /\ resp.res.data.accountId = "acc-001"
  /\ Len(transactions) = Len(SeedTransactions) + 2
  /\ Val(getAccountById(accounts, "acc-001")).balance = SeedAccounts[1].balance

\* C23: a successful POST /transactions appends two records in one step: a
\* debit on fromAccount with counterparty toAccount, then a credit on toAccount
\* with counterparty fromAccount, both of the amount and currency asked for,
\* pending with processedAt null, the credit numbered one after the debit; a
\* rejected POST /transactions appends nothing.
C23_TransferAppendsDebitThenCredit ==
  [][Handles("POST /transactions")
     => LET n == Len(transactions)
            body == resp'.req.body
        IN  IF resp'.res.kind = "success"
            THEN /\ Len(transactions') = n + 2
                 /\ SubSeq(transactions', 1, n) = transactions
                 /\ LET debit == transactions'[n + 1]
                        credit == transactions'[n + 2]
                    IN  /\ debit = resp'.res.data.debitTransaction
                        /\ credit = resp'.res.data.creditTransaction
                        /\ debit.type = "debit" /\ credit.type = "credit"
                        /\ debit.accountId = Val(body.fromAccount)
                        /\ debit.counterparty = Val(body.toAccount)
                        /\ credit.accountId = Val(body.toAccount)
                        /\ credit.counterparty = Val(body.fromAccount)
                        /\ debit.amount = Val(body.amount) /\ credit.amount = Val(body.amount)
                        /\ debit.currency = Val(body.currency)
                        /\ credit.currency = Val(body.currency)
                        /\ debit.status = "pending" /\ credit.status = "pending"
                        /\ debit.processedAt = Null /\ credit.processedAt = Null
                        /\ debit.id = MakeId("txn-", n + 1)
                        /\ credit.id = MakeId("txn-", n + 2)
            ELSE transactions' = transactions]_vars
\* A second transfer, made after the first one and with it still stored, got
\* the ids txn-006 and txn-007.
C23_Witness ==
  /\ Sent("POST /transactions")
  /\ resp.res.kind = "success"
  /\ resp.res.data.debitTransaction.id = "txn-006"
  /\ resp.res.data.creditTransaction.id = "txn-007"
  /\ Len(transactions) = 7

\* C24: a POST request to the path of a checker is answered with the checker
\* response, never with the 404 error "Endpoint not found".
C24_CheckersAnswerPost ==
  (resp.kind = "sent"
   /\ \E checker \in CheckerPaths : resp.req.op = "POST " \o checker.path)
  => (resp.res.kind = "checker" /\ resp.res # EndpointNotFound)

\* C25: a loan is approved exactly when its approvedAt is set, an approved loan
\* has disbursedAt set and remainingBalance equal to its amount, and no loan
\* has the status disbursed; a successful approve brings all of this about in
\* its one step.
C25_ApprovedLoanIsDisbursed ==
  /\ [](\A i \in 1..Len(loans) :
          /\ (loans[i].status = "approved") <=> (loans[i].approvedAt # Null)
          /\ loans[i].status = "approved"
             => /\ loans[i].disbursedAt # Null
                /\ Field(loans[i], "remainingBalance") = Some(loans[i].amount)
          /\ loans[i].status # "disbursed")
  /\ [][(Handles("POST /loans/:loanId/approve") /\ resp'.res.kind = "success")
        => LET loan == Val(getLoanById(loans', resp'.req.id))
           IN  /\ Val(getLoanById(loans, resp'.req.id)).status = "pending"
               /\ loan = resp'.res.data
               /\ loan.status = "approved"
               /\ loan.approvedAt = Some(now)
               /\ loan.disbursedAt = Some(now)
               /\ loan.remainingBalance = Some(loan.amount)]_vars
\* A loan applied for through the API was approved.
C25_Witness ==
  /\ Sent("POST /loans/:loanId/approve")
  /\ resp.req.id = "loan-004"
  /\ resp.res.kind = "success"
  /\ resp.res.data.status = "approved"
  /\ resp.res.data.approvedAt = resp.res.data.disbursedAt
  /\ resp.res.data.remainingBalance = Some(resp.res.data.amount)

\* C26: the loan statuses approved and rejected are final: no step changes the
\* status of a loan that is approved or rejected; and check-approved answers
\* true exactly for an approved loan, so that its answer for a loan stays true
\* once true and stays false for a rejected loan.
C26_ApprovedAndRejectedAreFinal ==
  /\ [][/\ Kept(loans, loans')
        /\ \A i \in 1..Len(loans) :
             loans[i].status \in {"approved", "rejected"}
             => loans'[i].status = loans[i].status]_vars
  /\ []((Sent("GET /loans/:loanId/check-approved")
         /\ getLoanById(loans, resp.req.id) # Null)
        => (resp.res.result
            <=> Val(getLoanById(loans, resp.req.id)).status = "approved"))
\* check-approved answers true for a loan that an approve made approved.
C26_Witness ==
  /\ Sent("GET /loans/:loanId/check-approved")
  /\ resp.req.id = "loan-002"
  /\ resp.res.result = TRUE
  /\ Val(getLoanById(loans, "loan-002")).approvedAt = Some(Now0)
  /\ now > Now0 + 1

\* C27: approve succeeds for every pending loan, whatever its eligible flag and
\* its credit score.
C27_ApprovalIgnoresEligibility ==
  [][(/\ Handles("POST /loans/:loanId/approve")
      /\ getLoanById(loans, resp'.req.id) # Null
      /\ Val(getLoanById(loans, resp'.req.id)).status = "pending")
     => /\ resp'.res.kind = "success"
        /\ Val(getLoanById(loans', resp'.req.id)).status = "approved"]_vars
\* A loan that is not eligible was approved: check-eligible answers false for
\* it.
C27_Witness ==
  /\ Sent("POST /loans/:loanId/approve")
  /\ resp.res.kind = "success"
  /\ Val(getLoanById(loans, resp.req.id)).status = "approved"
  /\ Val(getLoanById(loans, resp.req.id)).eligible = FALSE
  /\ Val(getLoanById(loans, resp.req.id)).creditScore < 650
  /\ CheckEligible(resp.req.id).result = FALSE

\* The ids of the records of a store that have the status.
IdsWithStatus(store, status) == {store[i].id : i \in {j \in 1..Len(store) : store[j].status = status}}

\* C28: the cleared transactions and the completed payments are those of the
\* seed data in every state; the only change of a payment's status is from
\* pending to cancelled; check-cleared answers false for every transaction that
\* was not seeded as cleared, and check-ready answers false for a cancelled
\* payment.
C28_NothingClearsOrCompletes ==
  /\ [](/\ IdsWithStatus(transactions, "cleared") = IdsWithStatus(SeedTransactions, "cleared")
        /\ IdsWithStatus(payments, "completed") = IdsWithStatus(SeedPayments, "completed"))
  /\ [][/\ Kept(payments, payments')
        /\ \A i \in 1..Len(payments) :
             payments'[i].status # payments[i].status
             => (payments[i].status = "pending" /\ payments'[i].status = "cancelled")]_vars
  /\ []((Sent("GET /transactions/:txnId/check-cleared")
         /\ resp.req.id \notin IdsWithStatus(SeedTransactions, "cleared"))
        => resp.res.result = FALSE)
  /\ []((Sent("GET /payments/:paymentId/check-ready")
         /\ resp.req.id \in IdsWithStatus(payments, "cancelled"))
        => resp.res.result = FALSE)
\* check-cleared answers false for a transaction made by POST /transactions.
C28_Witness ==
  /\ Sent("GET /transactions/:txnId/check-cleared")
  /\ resp.req.id = "txn-004"
  /\ getTransactionById(transactions, "txn-004") # Null
  /\ resp.res.result = FALSE
  /\ resp.res.reason = "Transaction status is: pending"

\* A limits update body supplies a limit and every limit it supplies is >= 0.
AcceptableLimits(body) ==
  /\ body.dailyLimit # Null \/ body.monthlyLimit # Null
  /\ body.dailyLimit # Null => Val(body.dailyLimit) >= 0
  /\ body.monthlyLimit # Null => Val(body.monthlyLimit) >= 0

\* C29: POST /limits/:accountId/update succeeds exactly for the bodies that
\* supply at least one of dailyLimit and monthlyLimit with every supplied value
\* >= 0, the value 0 included; it then stores the supplied limits and leaves
\* the other limit and both used counters of an existing record as they were,
\* and a rejected request leaves the limits store unchanged.
C29_UpdateAcceptsNonNegativeLimits ==
  [][Handles("POST /limits/:accountId/update")
     => LET body == resp'.req.body
            before == getAccountLimit(accountLimits, resp'.req.id)
            after == getAccountLimit(accountLimits', resp'.req.id)
        IN  /\ (resp'.res.kind = "success") <=> AcceptableLimits(body)
            /\ resp'.res.kind # "success" => accountLimits' = accountLimits
            /\ resp'.res.kind = "success"
               => /\ after # Null
                  /\ body.dailyLimit # Null => Val(after).dailyLimit = Val(body.dailyLimit)
                  /\ body.monthlyLimit # Null
                     => Val(after).monthlyLimit = Val(body.monthlyLimit)
                  /\ before # Null
                     => /\ body.dailyLimit = Null
                           => Val(after).dailyLimit = Val(before).dailyLimit
                        /\ body.monthlyLimit = Null
                           => Val(after).monthlyLimit = Val(before).monthlyLimit
                        /\ Val(after).dailyUsed = Val(before).dailyUsed
                        /\ Val(after).monthlyUsed = Val(before).monthlyUsed]_vars

\* The number of documents a refresh body supplies.
SuppliedCount(body) == IF body.documents = Null THEN 0 ELSE Len(Val(body.documents))

\* verifiedAt and expiresAt of a record, once set, never change.
VerificationKept ==
  \A i \in 1..Len(kycRecords) :
    kycRecords[i].verifiedAt # Null
    => /\ kycRecords'[i].customerId = kycRecords[i].customerId
       /\ kycRecords'[i].verifiedAt = kycRecords[i].verifiedAt
       /\ kycRecords'[i].expiresAt = kycRecords[i].expiresAt

\* C30 as stated: a refresh of an approved record with fewer than 2 supplied
\* documents sets it to pending and leaves verifiedAt, expiresAt and the stored
\* documents as they were, and verifiedAt, once set, is constant.
C30_RefreshKeepsDocuments ==
  [][/\ Kept(kycRecords, kycRecords')
     /\ VerificationKept
     /\ (/\ Handles("POST /kyc/customers/:customerId/refresh")
         /\ getKycRecord(kycRecords, resp'.req.id) # Null
         /\ Val(getKycRecord(kycRecords, resp'.req.id)).status = "approved"
         /\ SuppliedCount(resp'.req.body) < 2)
        => LET before == Val(getKycRecord(kycRecords, resp'.req.id))
               after == Val(getKycRecord(kycRecords', resp'.req.id))
           IN  /\ after.status = "pending"
               /\ after.verifiedAt = before.verifiedAt
               /\ after.expiresAt = before.expiresAt
               /\ after.documents = before.documents]_vars

\* C30: a refresh of an approved record with fewer than 2 supplied documents
\* sets it to pending and leaves verifiedAt and expiresAt as they were; the
\* stored documents stay only when the body has no documents array, and are
\* replaced by the supplied array otherwise.  verifiedAt and expiresAt, once
\* set, are constant, also across a later refresh to approved.
C30_RefreshKeepsVerification ==
  [][/\ Kept(kycRecords, kycRecords')
     /\ VerificationKept
     /\ (/\ Handles("POST /kyc/customers/:customerId/refresh")
         /\ getKycRecord(kycRecords, resp'.req.id) # Null
         /\ Val(getKycRecord(kycRecords, resp'.req.id)).status = "approved"
         /\ SuppliedCount(resp'.req.body) < 2)
        => LET before == Val(getKycRecord(kycRecords, resp'.req.id))
               after == Val(getKycRecord(kycRecords', resp'.req.id))
           IN  /\ after.status = "pending"
               /\ after.verifiedAt = before.verifiedAt
               /\ after.expiresAt = before.expiresAt
               /\ after.documents = Supplied(resp'.req.body.documents, before.documents)]_vars
\* The first write refreshes approved cust-001 with one document: the record is
\* pending with its seeded verifiedAt and expiresAt, holding the one document.
C30_Witness ==
  /\ Sent("POST /kyc/customers/:customerId/refresh")
  /\ resp.req.id = "cust-001"
  /\ resp.req.body.documents = Some(<<"id">>)
  /\ now = Now0 + 1
  /\ Val(getKycRecord(kycRecords, "cust-001")).status = "pending"
  /\ Val(getKycRecord(kycRecords, "cust-001")).verifiedAt = SeedKycRecords[1].verifiedAt
  /\ Val(getKycRecord(kycRecords, "cust-001")).expiresAt = SeedKycRecords[1].expiresAt
  /\ Val(getKycRecord(kycRecords, "cust-001")).documents = <<"id">>

====
